---- MODULE Spec2Model ----
(***************************************************************************)
(* Acorn Slack bot: the AI service (agent / direct-model selection and     *)
(* fallback) and the streaming response accumulators (interactive path,    *)
(* src/utils/streamingHelper.ts; background path, src/slack/responses.js). *)
(*                                                                         *)
(* Text is modelled as a sequence of tokens; a token stands for a block    *)
(* of characters (see TokWidth).  String concatenation is \o.              *)
(***************************************************************************)
EXTENDS Integers, Sequences, FiniteSets, TLC

(***************************************************************************)
(* Bounds                                                                  *)
(***************************************************************************)
MaxAgentChunks == 2

(***************************************************************************)
(* Small input sets                                                        *)
(***************************************************************************)
Questions == {"q1", "q2"}
AgentIds == {"", "AGENT1"}
AgentTokens == {"a", " "}
ModelTexts == {<<"ok">>, <<>>}
ErrorMessages == {"boom"}

NoText == <<>>

(***************************************************************************)
(* AIService (services/aiService.ts)                                       *)
(***************************************************************************)
VARIABLES
  agentId,        \* process.env.BEDROCK_AGENT_ID ("" when unset)
  initialized,    \* AIService.initialized
  agentClient,    \* AIService.agentClient is non-null
  svcPc,          \* position of the current query()/stream() call
  svcOp,          \* "query" or "stream"
  svcQuestion,    \* the question of the current call
  svcOpts,        \* QueryOptions of the current call
  agentCalls,     \* agentClient.send invocations of the current call
  modelCalls,     \* generateText/streamText invocations of the current call
  agentInput,     \* inputText handed to the agent
  modelInput,     \* user message and knowledge base handed to the model
  finalResponse,  \* _queryAgent: text accumulated from response.completion
  agentRead,      \* _queryAgent: chunks read from response.completion
  svcResult,      \* the AIResponse the call returned
  agentThrew,     \* the agent transport raised during the current call
  modelOutcome    \* what the model transport did during the current call

svcVars == <<agentId, initialized, agentClient, svcPc, svcOp, svcQuestion,
             svcOpts, agentCalls, modelCalls, agentInput, modelInput,
             finalResponse, agentRead, svcResult, agentThrew, modelOutcome>>

VARIABLES
  path,          \* "interactive" (streamingHelper.ts) or "background" (responses.js)
  prefix,        \* the prefix argument
  chunks,        \* what result.stream.textStream yields, in order
  hPc,           \* position of the handler
  pos,           \* chunks read from the stream so far
  fullResponse,  \* let fullResponse
  citations,     \* let citations
  now,           \* Date.now()
  lastUpdate,    \* let lastUpdate
  streamError,   \* the error the catch block received ("" when none)
  updates        \* the chat.update calls issued so far, in order

accVars == <<path, prefix, chunks, hPc, pos, fullResponse, citations, now,
             lastUpdate, streamError, updates>>

VARIABLES
  resp,          \* concurrent responses: the local state of each handleStreamingResponse call
  posted,        \* the number of messages Slack has accepted so far (its last ts)
  cNow           \* Date.now() while several responses are in flight

concVars == <<resp, posted, cNow>>

VARIABLES
  lamPc,         \* Lambda invocation: position of the handler run by slackEventsHandler
  lamRemaining,  \* context.getRemainingTimeInMillis()
  lamLastUpdate, \* the remaining time when lastUpdate was set
  lamRead,       \* chunks read from the stream
  lamTotal,      \* chunks the stream holds
  lamCalls       \* the messaging-surface calls made through eventContext

lamVars == <<lamPc, lamRemaining, lamLastUpdate, lamRead, lamTotal, lamCalls>>

VARIABLES
  kbIds,         \* aiService.knowledgeBaseIds
  kbPc,          \* position of queryWithKnowledgeBasePriority
  kbIndex,       \* the loop variable i (counted from 1)
  kbQueries,     \* the aiService.query calls made, with what the backends did
  kbResult       \* the value queryWithKnowledgeBasePriority returns

kbVars == <<kbIds, kbPc, kbIndex, kbQueries, kbResult>>

VARIABLES
  askPath,       \* "bolt": the app.message ask handler; "http": handleMessage
  askText,       \* the text of the incoming message
  askPc,         \* position of the handler
  askSent,       \* messages the handler asked Slack to post
  askBackend     \* calls of aiService.query / aiService.stream

askVars == <<askPath, askText, askPc, askSent, askBackend>>

VARIABLES
  sidUser,       \* length of userId
  sidChannel,    \* length of channelId
  sidNow,        \* number of digits of Date.now()
  sidOp,         \* which agent call built the session id
  sessionId      \* the sessionId of the InvokeAgentCommand

sidVars == <<sidUser, sidChannel, sidNow, sidOp, sessionId>>

VARIABLES
  citePending,   \* retrievedReferences still to be visited by forEach
  citeDone,      \* the references visited so far
  citeList       \* the citations array

citeVars == <<citePending, citeDone, citeList>>

VARIABLES
  menText,       \* event.text of the app_mention event
  menPc,         \* position of the mention handler
  menReplies,    \* the say calls of the handler
  menAi          \* the texts handed to handleStreamingResponse

menVars == <<menText, menPc, menReplies, menAi>>

VARIABLES
  httpReq,       \* the API Gateway request the Lambda events handler received
  httpPc,        \* position of the handler
  httpStatus,    \* statusCode of the response (0 while none was returned)
  httpHandlers,  \* Slack event handlers invoked for the request
  slackApp       \* the module-level slackApp is set

httpVars == <<httpReq, httpPc, httpStatus, httpHandlers, slackApp>>

VARIABLES
  entReq,        \* the request an HTTP entry point received
  entPc,         \* position of the entry point's handler
  entStatus,     \* status of its response (0 while none was sent)
  entVerified,   \* verifySlackSignature returned true for the request
  entActed       \* what was done with the body: challenge echoed, event handled

entryVars == <<entReq, entPc, entStatus, entVerified, entActed>>

VARIABLES
  shAgentId,      \* the singleton AIService: BEDROCK_AGENT_ID is set
  shInitialized,  \* its field initialized
  shModel,        \* its field model is non-null
  shAgentClient,  \* its field agentClient is non-null
  shCreated,      \* how often bedrock() and new BedrockAgentRuntimeClient ran
  shPc            \* position of each concurrent caller of query()/stream()

sharedVars == <<shAgentId, shInitialized, shModel, shAgentClient, shCreated, shPc>>

VARIABLES
  loopPath,      \* which HTTP message path handles message events
  loopInbox,     \* message events Slack still has to deliver
  loopPosts      \* messages the bot posted, each with the bot_id of its cause

loopVars == <<loopPath, loopInbox, loopPosts>>

VARIABLES
  genCompletion, \* the events response.completion yields
  genPc,         \* position of streamGenerator
  genPos,        \* events of response.completion consumed
  genFull,       \* let fullResponse of the generator
  genCites,      \* const citations of the generator
  genOut         \* the chunks the generator has yielded

genVars == <<genCompletion, genPc, genPos, genFull, genCites, genOut>>

extVars == <<concVars, lamVars, kbVars, askVars, sidVars, citeVars, menVars, httpVars, entryVars, sharedVars, loopVars, genVars>>

notConc == <<svcVars, accVars, lamVars, kbVars, askVars, sidVars, citeVars, menVars, httpVars, entryVars, sharedVars, loopVars, genVars>>

notLam == <<svcVars, accVars, concVars, kbVars, askVars, sidVars, citeVars, menVars, httpVars, entryVars, sharedVars, loopVars, genVars>>

notKb == <<svcVars, accVars, concVars, lamVars, askVars, sidVars, citeVars, menVars, httpVars, entryVars, sharedVars, loopVars, genVars>>

notAsk == <<svcVars, accVars, concVars, lamVars, kbVars, sidVars, citeVars, menVars, httpVars, entryVars, sharedVars, loopVars, genVars>>

notSid == <<svcVars, accVars, concVars, lamVars, kbVars, askVars, citeVars, menVars, httpVars, entryVars, sharedVars, loopVars, genVars>>

notCite == <<svcVars, accVars, concVars, lamVars, kbVars, askVars, sidVars, menVars, httpVars, entryVars, sharedVars, loopVars, genVars>>

notMen == <<svcVars, accVars, concVars, lamVars, kbVars, askVars, sidVars, citeVars, httpVars, entryVars, sharedVars, loopVars, genVars>>

notHttp == <<svcVars, accVars, concVars, lamVars, kbVars, askVars, sidVars, citeVars, menVars, entryVars, sharedVars, loopVars, genVars>>

notEntry == <<svcVars, accVars, concVars, lamVars, kbVars, askVars, sidVars, citeVars, menVars, httpVars, sharedVars, loopVars, genVars>>

notShared == <<svcVars, accVars, concVars, lamVars, kbVars, askVars, sidVars, citeVars, menVars, httpVars, entryVars, loopVars, genVars>>

notLoop == <<svcVars, accVars, concVars, lamVars, kbVars, askVars, sidVars, citeVars, menVars, httpVars, entryVars, sharedVars, genVars>>

notGen == <<svcVars, accVars, concVars, lamVars, kbVars, askVars, sidVars, citeVars, menVars, httpVars, entryVars, sharedVars, loopVars>>

vars == <<svcVars, accVars, extVars>>

QueryOptions == [stream: BOOLEAN, forceDirectModel: BOOLEAN, knowledgeBaseId: {"", "kb1"}]

NoResult == [success |-> FALSE, response |-> NoText, source |-> "none",
             error |-> "none", hasStream |-> FALSE]

NoInput == [kb |-> "", question |-> ""]

NoOutcome == [kind |-> "none", text |-> NoText]

\* String.prototype.trim on a token sequence: strips leading and trailing blanks
RECURSIVE TrimLeft(_)
TrimLeft(s) == IF s # <<>> /\ Head(s) = " " THEN TrimLeft(Tail(s)) ELSE s

RECURSIVE TrimRight(_)
TrimRight(s) == IF s # <<>> /\ s[Len(s)] = " " THEN TrimRight(SubSeq(s, 1, Len(s) - 1)) ELSE s

Trim(s) == TrimRight(TrimLeft(s))

NoAgentResponseText == <<"I received your question but couldn't generate a response.">>
QueryModelErrorText == <<"Sorry, I encountered an error while processing your question. Please try again later.">>
StreamModelErrorText == <<"Sorry, I encountered an error while generating a streaming response.">>

\* AIService.initialize: the agent client exists iff an agent id is configured
initialize ==
  IF initialized
    THEN UNCHANGED <<initialized, agentClient>>
    ELSE /\ initialized' = TRUE
         /\ agentClient' = (agentId # "")

\* AIService.initialize raises (bedrock(), the credential provider or the
\* BedrockAgentRuntimeClient constructor throws): its catch block logs and
\* rethrows, and query()/stream() await it outside any try block
InitializeThrows(op, question, options) ==
  /\ svcPc \in {"idle", "returned", "iterFailed", "initRejected"}
  /\ ~initialized
  /\ svcPc' = "initRejected"
  /\ svcOp' = op
  /\ svcQuestion' = question
  /\ svcOpts' = options
  /\ agentCalls' = 0
  /\ modelCalls' = 0
  /\ agentInput' = NoInput
  /\ modelInput' = NoInput
  /\ finalResponse' = NoText
  /\ agentRead' = 0
  /\ svcResult' = NoResult
  /\ agentThrew' = FALSE
  /\ modelOutcome' = NoOutcome
  /\ UNCHANGED <<agentId, initialized, agentClient, accVars, extVars>>

\* the condition under which query() takes the agent path
QueryUsesAgent(client, options) == client /\ ~options.stream

StreamUsesAgent_IgnoresForce(client, options) == client

\* the condition under which stream() takes the agent path
StreamUsesAgent(client, options) == client /\ ~options.forceDirectModel

\* inputText of the InvokeAgentCommand
AgentInputText(question, knowledgeBaseId) == [kb |-> knowledgeBaseId, question |-> question]

FallbackModelInput_DropsQuestion(question) == [kb |-> "", question |-> ""]

\* the options _queryAgent/_streamAgent hand to the model on fallback
FallbackModelInput(question) == [kb |-> "", question |-> question]

\* AIService.query, up to its first backend invocation
query(question, options) ==
  /\ svcPc \in {"idle", "returned", "iterFailed", "initRejected"}
  /\ initialize
  /\ svcOp' = "query"
  /\ svcQuestion' = question
  /\ svcOpts' = options
  /\ agentCalls' = 0
  /\ modelCalls' = 0
  /\ finalResponse' = NoText
  /\ agentRead' = 0
  /\ svcResult' = NoResult
  /\ agentThrew' = FALSE
  /\ modelOutcome' = NoOutcome
  /\ IF QueryUsesAgent(agentClient', options)
       THEN /\ svcPc' = "agentSend"
            /\ agentInput' = AgentInputText(question, options.knowledgeBaseId)
            /\ modelInput' = NoInput
       ELSE /\ svcPc' = "model"
            /\ agentInput' = NoInput
            /\ modelInput' = [kb |-> options.knowledgeBaseId, question |-> question]
  /\ UNCHANGED <<agentId, accVars, extVars>>

\* AIService.stream, up to its first backend invocation
stream(question, options) ==
  /\ svcPc \in {"idle", "returned", "iterFailed", "initRejected"}
  /\ initialize
  /\ svcOp' = "stream"
  /\ svcQuestion' = question
  /\ svcOpts' = options
  /\ agentCalls' = 0
  /\ modelCalls' = 0
  /\ finalResponse' = NoText
  /\ agentRead' = 0
  /\ svcResult' = NoResult
  /\ agentThrew' = FALSE
  /\ modelOutcome' = NoOutcome
  /\ IF StreamUsesAgent(agentClient', options)
       THEN /\ svcPc' = "agentSend"
            /\ agentInput' = AgentInputText(question, options.knowledgeBaseId)
            /\ modelInput' = NoInput
       ELSE /\ svcPc' = "model"
            /\ agentInput' = NoInput
            /\ modelInput' = [kb |-> options.knowledgeBaseId, question |-> question]
  /\ UNCHANGED <<agentId, accVars, extVars>>

\* catch block of _queryAgent/_streamAgent: fall back to the direct model
AgentFallback ==
  /\ svcPc' = "model"
  /\ modelInput' = FallbackModelInput(svcQuestion)

\* agentClient.send(command) rejects
AgentSendThrows ==
  /\ svcPc = "agentSend"
  /\ agentCalls' = agentCalls + 1
  /\ agentThrew' = TRUE
  /\ AgentFallback
  /\ UNCHANGED <<accVars, extVars, agentId, initialized, agentClient, svcOp, svcQuestion, svcOpts,
                 modelCalls, agentInput, finalResponse, agentRead, svcResult,
                 modelOutcome>>

\* agentClient.send(command) resolves: _queryAgent starts to iterate the
\* completion, _streamAgent wraps it in a lazy generator and returns
AgentSendReturns ==
  /\ svcPc = "agentSend"
  /\ agentCalls' = agentCalls + 1
  /\ IF svcOp = "query"
       THEN /\ svcPc' = "agentIter"
            /\ UNCHANGED svcResult
       ELSE /\ svcPc' = "returned"
            /\ svcResult' = [success |-> TRUE, response |-> NoText, source |-> "agent",
                             error |-> "none", hasStream |-> TRUE]
  /\ UNCHANGED <<accVars, extVars, agentId, initialized, agentClient, svcOp, svcQuestion, svcOpts,
                 modelCalls, agentInput, modelInput, finalResponse, agentRead,
                 agentThrew, modelOutcome>>

\* _queryAgent: for await (const chunk of response.completion), one chunk
AgentChunk(tok) ==
  /\ svcPc = "agentIter"
  /\ agentRead < MaxAgentChunks
  /\ agentRead' = agentRead + 1
  /\ finalResponse' = finalResponse \o <<tok>>
  /\ UNCHANGED <<accVars, extVars, agentId, initialized, agentClient, svcPc, svcOp, svcQuestion, svcOpts,
                 agentCalls, modelCalls, agentInput, modelInput, svcResult,
                 agentThrew, modelOutcome>>

\* _queryAgent: the completion raises while it is iterated
AgentIterThrows ==
  /\ svcPc = "agentIter"
  /\ agentThrew' = TRUE
  /\ AgentFallback
  /\ UNCHANGED <<accVars, extVars, agentId, initialized, agentClient, svcOp, svcQuestion, svcOpts,
                 agentCalls, modelCalls, agentInput, finalResponse, agentRead, svcResult,
                 modelOutcome>>

\* the result _queryAgent returns for the text its completion produced
AgentQueryResult(text) ==
  [success |-> TRUE,
   response |-> IF Trim(text) # <<>> THEN Trim(text) ELSE NoAgentResponseText,
   source |-> "agent", error |-> "none", hasStream |-> FALSE]

\* _queryAgent: the completion is exhausted, the agent result is returned
AgentDone ==
  /\ svcPc = "agentIter"
  /\ svcPc' = "returned"
  /\ svcResult' = AgentQueryResult(finalResponse)
  /\ UNCHANGED <<accVars, extVars, agentId, initialized, agentClient, svcOp, svcQuestion, svcOpts,
                 agentCalls, modelCalls, agentInput, modelInput, finalResponse, agentRead,
                 agentThrew, modelOutcome>>

\* _streamAgent: the completion raises while the consumer iterates textStream.
\* streamGenerator runs after _streamAgent has returned, outside its try
\* block, so the exception is raised in the consumer's for await loop
AgentStreamIterThrows ==
  /\ svcPc = "returned"
  /\ svcOp = "stream"
  /\ svcResult.hasStream
  /\ svcResult.source = "agent"
  /\ svcPc' = "iterFailed"
  /\ agentThrew' = TRUE
  /\ UNCHANGED <<accVars, extVars, agentId, initialized, agentClient, svcOp, svcQuestion, svcOpts,
                 agentCalls, modelCalls, agentInput, modelInput, finalResponse, agentRead,
                 svcResult, modelOutcome>>

\* the result _queryModel/_streamModel return when the model call resolves
ModelSuccessResult(op, text) ==
  IF op = "query"
    THEN [success |-> TRUE, response |-> text, source |-> "model",
          error |-> "none", hasStream |-> FALSE]
    ELSE [success |-> TRUE, response |-> NoText, source |-> "model",
          error |-> "none", hasStream |-> TRUE]

ModelFailureResult_Swallowed(op, msg) ==
  [success |-> TRUE, response |-> NoText, source |-> "model",
   error |-> "none", hasStream |-> FALSE]

\* the result _queryModel/_streamModel return from their catch block
ModelFailureResult(op, msg) ==
  [success |-> FALSE,
   response |-> IF op = "query" THEN QueryModelErrorText ELSE StreamModelErrorText,
   source |-> "none", error |-> msg, hasStream |-> FALSE]

ModelCatch_Rethrows(op, msg) == [pc |-> "rejected", result |-> NoResult]

\* try/catch around generateText/streamText: the error is turned into a result
ModelCatch(op, msg) == [pc |-> "returned", result |-> ModelFailureResult(op, msg)]

\* generateText/streamText resolves
ModelReturns(text) ==
  /\ svcPc = "model"
  /\ modelCalls' = modelCalls + 1
  /\ svcPc' = "returned"
  /\ svcResult' = ModelSuccessResult(svcOp, text)
  /\ modelOutcome' = [kind |-> "text", text |-> text]
  /\ UNCHANGED <<accVars, extVars, agentId, initialized, agentClient, svcOp, svcQuestion, svcOpts,
                 agentCalls, agentInput, modelInput, finalResponse, agentRead,
                 agentThrew>>

\* generateText/streamText rejects
ModelThrows(msg) ==
  /\ svcPc = "model"
  /\ modelCalls' = modelCalls + 1
  /\ svcPc' = ModelCatch(svcOp, msg).pc
  /\ svcResult' = ModelCatch(svcOp, msg).result
  /\ modelOutcome' = [kind |-> "threw", text |-> NoText]
  /\ UNCHANGED <<accVars, extVars, agentId, initialized, agentClient, svcOp, svcQuestion, svcOpts,
                 agentCalls, agentInput, modelInput, finalResponse, agentRead,
                 agentThrew>>

(***************************************************************************)
(* Streaming responses: handleStreamingResponse of utils/streamingHelper.ts *)
(* (interactive path) and handleStreamingResponse/processStreamInBackground *)
(* of slack/responses.js (background path)                                  *)
(***************************************************************************)
MaxChunks == 4

updateIntervalInteractive == 2000
updateIntervalBackground == 3000
MinProgressLength == 50

Paths == {"interactive", "background"}
Prefixes == {<<"pfx">>}
TimeSteps == {1000, 2000}
StreamErrors == {"stream-err"}
SlackError == "slack-err"
User == "U1"

Citation1 == [uri |-> "u1", title |-> "t1", type |-> "s3"]
Citation2 == [uri |-> "u2", title |-> "t2", type |-> "web"]

TextChunk(t) == [type |-> "text", text |-> <<t>>, cites |-> <<>>]
StringChunk(t) == [type |-> "string", text |-> <<t>>, cites |-> <<>>]
CitationsChunk(c) == [type |-> "citations", text |-> <<>>, cites |-> c]
CompleteChunk(t) == [type |-> "complete", text |-> <<t>>, cites |-> <<>>]
OtherChunk(t) == [type |-> "other", text |-> <<t>>, cites |-> <<>>]

Chunks ==
  {TextChunk("a"), TextChunk("b"), StringChunk("c"),
   CitationsChunk(<<Citation1>>), CitationsChunk(<<Citation2>>),
   CompleteChunk("z"), OtherChunk("y")}

ChunkSeqs == UNION {[1..n -> Chunks] : n \in 0..MaxChunks}

\* the number of characters a token stands for
TokWidth(t) == CASE t = "a" -> 30 [] t = "b" -> 30 [] OTHER -> 1

\* String.prototype.length
RECURSIVE StrLen(_)
StrLen(s) == IF s = <<>> THEN 0 ELSE TokWidth(Head(s)) + StrLen(Tail(s))

getCitationEmoji(citationType) ==
  CASE citationType = "s3" -> "page"
    [] citationType = "web" -> "globe"
    [] citationType = "confluence" -> "memo"
    [] citationType = "salesforce" -> "zap"
    [] citationType = "sharepoint" -> "chart"
    [] citationType = "kendra" -> "magnifier"
    [] OTHER -> "clipboard"

SourcesHeader == "Sources:"

RECURSIVE formatCitationEntries(_, _)
formatCitationEntries(cs, index) ==
  IF cs = <<>> THEN <<>>
  ELSE <<ToString(index + 1), getCitationEmoji(Head(cs).type), Head(cs).title, Head(cs).uri>>
         \o formatCitationEntries(Tail(cs), index + 1)

\* formatCitations of streamingHelper.ts; the same text is built inline in responses.js
formatCitations(cs) == <<SourcesHeader>> \o formatCitationEntries(cs, 0)

processStreamChunk_AppendsOther(chunk) ==
  IF chunk.type = "citations"
    THEN [text |-> <<>>, hasCitations |-> TRUE, citations |-> chunk.cites]
    ELSE [text |-> chunk.text, hasCitations |-> FALSE, citations |-> <<>>]

\* processStreamChunk of streamingHelper.ts
processStreamChunk(chunk) ==
  IF chunk.type = "string"
    THEN [text |-> chunk.text, hasCitations |-> FALSE, citations |-> <<>>]
  ELSE IF chunk.type = "text"
    THEN [text |-> chunk.text, hasCitations |-> FALSE, citations |-> <<>>]
  ELSE IF chunk.type = "citations"
    THEN [text |-> <<>>, hasCitations |-> TRUE, citations |-> chunk.cites]
  ELSE IF chunk.type = "complete"
    THEN [text |-> <<>>, hasCitations |-> FALSE, citations |-> <<>>]
  ELSE [text |-> <<>>, hasCitations |-> FALSE, citations |-> <<>>]

\* processStreamingResponse, loop body up to the test for "complete"
AccumulateInteractive(full, cites, chunk) ==
  LET r == processStreamChunk(chunk)
  IN [fullResponse |-> IF r.text # <<>> THEN full \o r.text ELSE full,
      citations |-> IF r.hasCitations THEN r.citations ELSE cites]

\* processStreamInBackground, loop body up to the periodic update
AccumulateBackground(full, cites, chunk) ==
  IF chunk.type = "string" THEN [fullResponse |-> full \o chunk.text, citations |-> cites]
  ELSE IF chunk.type = "text" THEN [fullResponse |-> full \o chunk.text, citations |-> cites]
  ELSE IF chunk.type = "citations" THEN [fullResponse |-> full, citations |-> chunk.cites]
  ELSE [fullResponse |-> full, citations |-> cites]

Accumulate(p, full, cites, chunk) ==
  IF p = "interactive" THEN AccumulateInteractive(full, cites, chunk)
  ELSE AccumulateBackground(full, cites, chunk)

IsComplete_Never(chunk) == FALSE

\* the loop leaves on a chunk of type "complete"
IsComplete(chunk) == chunk.type = "complete"

UpdateDue_AtThreshold(p, t, last, full) ==
  IF p = "interactive" THEN t - last >= updateIntervalInteractive
  ELSE t - last >= updateIntervalBackground /\ StrLen(full) > MinProgressLength

\* the condition of the periodic update
UpdateDue(p, t, last, full) ==
  IF p = "interactive" THEN t - last > updateIntervalInteractive
  ELSE t - last > updateIntervalBackground /\ StrLen(full) > MinProgressLength

ProgressText_WithSources(pfx, full) ==
  pfx \o full \o (IF Len(citations) > 0 THEN formatCitations(citations) ELSE <<>>) \o <<"...">>

\* the text of a periodic update
ProgressText(pfx, full) == pfx \o full \o <<"...">>

\* the text of the terminal update
FinalText(pfx, full, cites) ==
  pfx \o (IF Len(cites) > 0 THEN full \o formatCitations(cites) ELSE full)

FailureText(p, response) == <<"[x]", "<@" \o User \o ">">> \o response

ErrorText_WithPartial(p, msg) ==
  <<"[x]", "Error during streaming: ">> \o fullResponse \o <<msg>>

\* the text of the error update
ErrorText(p, msg) ==
  IF p = "interactive"
    THEN <<"[x]", "<@" \o User \o ">", "Error during streaming: ", msg>>
    ELSE <<"[x]", "Error during streaming: ", msg>>

\* a chat.update call: updateSlackMessage rethrows a failure, updateMessage
\* (responses.js) logs it and returns null
Update(kind, text, ok) == [kind |-> kind, text |-> text, ok |-> ok]

\* where a failed chat.update inside the try block leaves the handler
AfterFailedUpdate(p, continue) == IF p = "interactive" THEN "catch" ELSE continue

\* chat.postMessage of the placeholder
PostPlaceholder(ok) ==
  /\ hPc = "start"
  /\ hPc' = IF ok THEN "awaitStream"
            ELSE IF path = "interactive" THEN "rejected" ELSE "unsent"
  /\ UNCHANGED <<svcVars, extVars, path, prefix, chunks, pos, fullResponse, citations, now,
                 lastUpdate, streamError, updates>>

\* aiService.stream returned success = false: the placeholder is edited to the failure text
StreamFailed(ok) ==
  /\ hPc = "awaitStream"
  /\ updates' = Append(updates, Update("failure", FailureText(path, StreamModelErrorText), ok))
  /\ hPc' = IF ok \/ path = "background" THEN "done" ELSE "rejected"
  /\ UNCHANGED <<svcVars, extVars, path, prefix, chunks, pos, fullResponse, citations, now,
                 lastUpdate, streamError>>

\* aiService.stream rejects (initialize rethrows): streamingHelper.ts awaits it
\* outside its try block and rejects with it, responses.js awaits it inside the
\* try block of processStreamInBackground
StreamRejects(msg) ==
  /\ hPc = "awaitStream"
  /\ hPc' = IF path = "interactive" THEN "rejectedByStream" ELSE "catch"
  /\ streamError' = IF path = "interactive" THEN streamError ELSE msg
  /\ UNCHANGED <<svcVars, extVars, path, prefix, chunks, pos, fullResponse, citations, now,
                 lastUpdate, updates>>

\* aiService.stream returned a stream: the accumulation state is created
StreamStarted ==
  /\ hPc = "awaitStream"
  /\ hPc' = "consume"
  /\ fullResponse' = <<>>
  /\ citations' = <<>>
  /\ lastUpdate' = now
  /\ UNCHANGED <<svcVars, extVars, path, prefix, chunks, pos, now, streamError, updates>>

\* one iteration of for await (const chunk of stream.textStream)
ReadChunk(dt, ok) ==
  /\ hPc = "consume"
  /\ pos < Len(chunks)
  /\ LET chunk == chunks[pos + 1]
         acc == Accumulate(path, fullResponse, citations, chunk)
         t == now + dt
     IN /\ pos' = pos + 1
        /\ now' = t
        /\ fullResponse' = acc.fullResponse
        /\ citations' = acc.citations
        /\ IF IsComplete(chunk)
             THEN /\ ok
                  /\ hPc' = "finalize"
                  /\ UNCHANGED <<lastUpdate, streamError, updates>>
           ELSE IF UpdateDue(path, t, lastUpdate, acc.fullResponse)
             THEN /\ updates' = Append(updates,
                                   Update("progress", ProgressText(prefix, acc.fullResponse), ok))
                  /\ LET next == IF ok THEN "consume" ELSE AfterFailedUpdate(path, "consume")
                     IN /\ hPc' = next
                        /\ lastUpdate' = IF next = "consume" THEN t ELSE lastUpdate
                        /\ streamError' = IF next = "catch" THEN SlackError ELSE streamError
           ELSE /\ ok
                /\ UNCHANGED <<hPc, lastUpdate, streamError, updates>>
  /\ UNCHANGED <<svcVars, extVars, path, prefix, chunks>>

\* the stream is exhausted
StreamEnds ==
  /\ hPc = "consume"
  /\ pos = Len(chunks)
  /\ hPc' = "finalize"
  /\ UNCHANGED <<svcVars, extVars, path, prefix, chunks, pos, fullResponse, citations, now,
                 lastUpdate, streamError, updates>>

\* the stream raises instead of yielding its next chunk
StreamThrows(msg) ==
  /\ hPc = "consume"
  /\ hPc' = "catch"
  /\ streamError' = msg
  /\ UNCHANGED <<svcVars, extVars, path, prefix, chunks, pos, fullResponse, citations, now,
                 lastUpdate, updates>>

\* the terminal update after the loop
Finalize(ok) ==
  /\ hPc = "finalize"
  /\ updates' = Append(updates, Update("final", FinalText(prefix, fullResponse, citations), ok))
  /\ LET next == IF ok THEN "done" ELSE AfterFailedUpdate(path, "done")
     IN /\ hPc' = next
        /\ streamError' = IF next = "catch" THEN SlackError ELSE streamError
  /\ UNCHANGED <<svcVars, extVars, path, prefix, chunks, pos, fullResponse, citations, now, lastUpdate>>

handleStreamingError_Unguarded(ok) ==
  /\ hPc = "catch"
  /\ updates' = Append(updates, Update("error", ErrorText(path, streamError), ok))
  /\ hPc' = IF ok THEN "done" ELSE "rejected"
  /\ UNCHANGED <<svcVars, extVars, path, prefix, chunks, pos, fullResponse, citations, now,
                 lastUpdate, streamError>>

\* handleStreamingError / the catch block of processStreamInBackground
handleStreamingError(ok) ==
  /\ hPc = "catch"
  /\ updates' = Append(updates, Update("error", ErrorText(path, streamError), ok))
  /\ hPc' = IF ok \/ path = "background" THEN "done" ELSE "rejected"
  /\ UNCHANGED <<svcVars, extVars, path, prefix, chunks, pos, fullResponse, citations, now,
                 lastUpdate, streamError>>

\* ---------------------------------------------------------------------------
\* Several invocations of handleStreamingResponse (utils/streamingHelper.ts) in
\* flight at once. Every local of an invocation (initialMessage, fullResponse,
\* citations, lastUpdate) lives in resp[r]; Slack and the clock are shared.
\* ---------------------------------------------------------------------------

Responses == {1, 2}
Channels == {"C1", "C2"}
ConcPrefix == <<>>
ConcTimeSteps == {0, 2500}

\* the streams aiService.stream hands to an invocation
ConcStreams ==
  { <<TextChunk("a"), CitationsChunk(<<Citation1>>)>>,
    <<StringChunk("c"), CitationsChunk(<<Citation2>>), CompleteChunk("z")>> }

\* event.ts of the message an invocation answers: Slack's ts of that message
EventTs(r) == r

NoTs == 0

InitResponse(r, channel, textStream) ==
  [pc |-> "start", channel |-> channel, eventTs |-> EventTs(r), messageTs |-> NoTs,
   chunks |-> textStream, pos |-> 0, fullResponse |-> <<>>, citations |-> <<>>,
   lastUpdate |-> 0, streamError |-> "", updates |-> <<>>]

UpdateTarget_EventTs(r) ==
  [channel |-> resp[r].channel, ts |-> resp[r].eventTs, thread_ts |-> resp[r].eventTs]

\* the channel, ts and thread_ts arguments of every updateSlackMessage call
UpdateTarget(r) ==
  [channel |-> resp[r].channel, ts |-> resp[r].messageTs, thread_ts |-> resp[r].eventTs]

ConcUpdate(r, kind, text, ok) ==
  [kind |-> kind, text |-> text, ok |-> ok, target |-> UpdateTarget(r)]

\* chat.postMessage of the placeholder: Slack assigns the next ts
ConcPost(r, ok) ==
  /\ resp[r].pc = "start"
  /\ IF ok
       THEN /\ posted' = posted + 1
            /\ resp' = [resp EXCEPT ![r].pc = "awaitStream", ![r].messageTs = posted + 1]
       ELSE /\ resp' = [resp EXCEPT ![r].pc = "rejected"]
            /\ UNCHANGED posted
  /\ UNCHANGED <<notConc, cNow>>

\* aiService.stream returned success = false
ConcStreamFailed(r, ok) ==
  /\ resp[r].pc = "awaitStream"
  /\ resp' = [resp EXCEPT
       ![r].updates = Append(@, ConcUpdate(r, "failure",
                                 FailureText("interactive", StreamModelErrorText), ok)),
       ![r].pc = IF ok THEN "done" ELSE "rejected"]
  /\ UNCHANGED <<notConc, posted, cNow>>

\* aiService.stream returned a stream: processStreamingResponse creates its locals
ConcStreamStarted(r) ==
  /\ resp[r].pc = "awaitStream"
  /\ resp' = [resp EXCEPT ![r].pc = "consume", ![r].fullResponse = <<>>,
                          ![r].citations = <<>>, ![r].lastUpdate = cNow]
  /\ UNCHANGED <<notConc, posted, cNow>>

\* one iteration of the for await loop of invocation r
ConcReadChunk(r, dt, ok) ==
  /\ resp[r].pc = "consume"
  /\ resp[r].pos < Len(resp[r].chunks)
  /\ LET me == resp[r]
         chunk == me.chunks[me.pos + 1]
         acc == Accumulate("interactive", me.fullResponse, me.citations, chunk)
         t == cNow + dt
         read == [me EXCEPT !.pos = me.pos + 1, !.fullResponse = acc.fullResponse,
                            !.citations = acc.citations]
     IN /\ cNow' = t
        /\ IF IsComplete(chunk)
             THEN /\ ok
                  /\ resp' = [resp EXCEPT ![r] = [read EXCEPT !.pc = "finalize"]]
           ELSE IF UpdateDue("interactive", t, me.lastUpdate, acc.fullResponse)
             THEN resp' = [resp EXCEPT ![r] =
                    [read EXCEPT
                       !.updates = Append(@, ConcUpdate(r, "progress",
                                      ProgressText(ConcPrefix, acc.fullResponse), ok)),
                       !.pc = IF ok THEN "consume" ELSE "catch",
                       !.lastUpdate = IF ok THEN t ELSE @,
                       !.streamError = IF ok THEN @ ELSE SlackError]]
           ELSE /\ ok
                /\ resp' = [resp EXCEPT ![r] = read]
  /\ UNCHANGED <<notConc, posted>>

\* the stream of invocation r is exhausted
ConcStreamEnds(r) ==
  /\ resp[r].pc = "consume"
  /\ resp[r].pos = Len(resp[r].chunks)
  /\ resp' = [resp EXCEPT ![r].pc = "finalize"]
  /\ UNCHANGED <<notConc, posted, cNow>>

\* the stream of invocation r raises
ConcStreamThrows(r, msg) ==
  /\ resp[r].pc = "consume"
  /\ resp' = [resp EXCEPT ![r].pc = "catch", ![r].streamError = msg]
  /\ UNCHANGED <<notConc, posted, cNow>>

\* the terminal update of invocation r
ConcFinalize(r, ok) ==
  /\ resp[r].pc = "finalize"
  /\ resp' = [resp EXCEPT
       ![r].updates = Append(@, ConcUpdate(r, "final",
                        FinalText(ConcPrefix, resp[r].fullResponse, resp[r].citations), ok)),
       ![r].pc = IF ok THEN "done" ELSE "catch",
       ![r].streamError = IF ok THEN @ ELSE SlackError]
  /\ UNCHANGED <<notConc, posted, cNow>>

\* handleStreamingError of invocation r
ConcStreamingError(r, ok) ==
  /\ resp[r].pc = "catch"
  /\ resp' = [resp EXCEPT
       ![r].updates = Append(@, ConcUpdate(r, "error",
                        ErrorText("interactive", resp[r].streamError), ok)),
       ![r].pc = IF ok THEN "done" ELSE "rejected"]
  /\ UNCHANGED <<notConc, posted, cNow>>

IdleConc ==
  /\ resp = [r \in Responses |-> InitResponse(r, "C1", <<>>)]
  /\ posted = Cardinality(Responses)
  /\ cNow = 0

\* ---------------------------------------------------------------------------
\* The Lambda path: slackEventsHandler builds eventContext (say, client.chat)
\* around context.getRemainingTimeInMillis() and runs the handler with it.
\* ---------------------------------------------------------------------------

MaxLambdaChunks == 3

bufferMs == 5000

LambdaBudgets == {4000, 7000, 9000, 12000, 15000}
LambdaTimeSteps == {1000, 2500}

isApproachingTimeout(remainingTime) == remainingTime <= bufferMs

\* eventContext.say: returns without sending when the deadline is near
say(remainingTime) == IF isApproachingTimeout(remainingTime) THEN "skipped" ELSE "sent"

\* eventContext.client.chat.postMessage and .update: throw when the deadline is near
chatCall(remainingTime) == IF isApproachingTimeout(remainingTime) THEN "threw" ELSE "sent"

LambdaCall(api, remainingTime, outcome) ==
  [api |-> api, remaining |-> remainingTime, outcome |-> outcome]

\* a handler that answers through say
LambdaSay ==
  /\ lamPc = "start"
  /\ lamCalls' = Append(lamCalls, LambdaCall("say", lamRemaining, say(lamRemaining)))
  /\ lamPc' = "done"
  /\ UNCHANGED <<notLam, lamRemaining, lamLastUpdate, lamRead, lamTotal>>

\* handleStreamingResponse: the placeholder, posted outside any try block
LambdaPostPlaceholder ==
  /\ lamPc = "start"
  /\ LET outcome == chatCall(lamRemaining)
     IN /\ lamCalls' = Append(lamCalls, LambdaCall("postMessage", lamRemaining, outcome))
        /\ lamPc' = IF outcome = "sent" THEN "consume" ELSE "rejected"
  /\ lamLastUpdate' = lamRemaining
  /\ UNCHANGED <<notLam, lamRemaining, lamRead, lamTotal>>

\* one iteration of the loop of processStreamingResponse, dt after the last one
LambdaReadChunk(dt) ==
  /\ lamPc = "consume"
  /\ lamRead < lamTotal
  /\ lamRemaining >= dt
  /\ LET t == lamRemaining - dt
     IN /\ lamRemaining' = t
        /\ lamRead' = lamRead + 1
        /\ IF lamLastUpdate - t > updateIntervalInteractive
             THEN LET outcome == chatCall(t)
                  IN /\ lamCalls' = Append(lamCalls, LambdaCall("update", t, outcome))
                     /\ lamPc' = IF outcome = "sent" THEN "consume" ELSE "catch"
                     /\ lamLastUpdate' = IF outcome = "sent" THEN t ELSE lamLastUpdate
             ELSE UNCHANGED <<lamPc, lamLastUpdate, lamCalls>>
  /\ UNCHANGED <<notLam, lamTotal>>

\* the terminal update after the loop
LambdaFinalize ==
  /\ lamPc = "consume"
  /\ lamRead = lamTotal
  /\ LET outcome == chatCall(lamRemaining)
     IN /\ lamCalls' = Append(lamCalls, LambdaCall("update", lamRemaining, outcome))
        /\ lamPc' = IF outcome = "sent" THEN "done" ELSE "catch"
  /\ UNCHANGED <<notLam, lamRemaining, lamLastUpdate, lamRead, lamTotal>>

\* handleStreamingError: the error update, itself a chat.update
LambdaStreamingError ==
  /\ lamPc = "catch"
  /\ LET outcome == chatCall(lamRemaining)
     IN /\ lamCalls' = Append(lamCalls, LambdaCall("update", lamRemaining, outcome))
        /\ lamPc' = IF outcome = "sent" THEN "done" ELSE "rejected"
  /\ UNCHANGED <<notLam, lamRemaining, lamLastUpdate, lamRead, lamTotal>>

IdleLambda ==
  /\ lamPc = "start"
  /\ lamRemaining = 0
  /\ lamLastUpdate = 0
  /\ lamRead = 0
  /\ lamTotal = 0
  /\ lamCalls = <<>>

\* ---------------------------------------------------------------------------
\* queryWithKnowledgeBasePriority (handlers/aiHandler.js and the mention
\* handler): the configured knowledge bases in turn, then the unscoped query.
\* ---------------------------------------------------------------------------

MaxKbs == 3

KbNames == {"kb1", "kb2", "kb3"}

\* BEDROCK_KNOWLEDGE_BASE_IDS split at the commas: any list, the empty one when unset
KbLists == UNION {[1..n -> KbNames] : n \in 0..MaxKbs}

Unscoped == ""

\* what the backends do during one aiService.query call: the agent completes
\* with a text, or the agent fails and the model answers, or both fail
KbOutcomes ==
  {[kind |-> "agent", text |-> t] : t \in {<<"a">>, <<" ">>, <<>>}}
    \cup {[kind |-> "model", text |-> <<"ok">>], [kind |-> "failed", text |-> <<>>]}

QueryResultOf_NoFallback(outcome) ==
  CASE outcome.kind = "agent" -> AgentQueryResult(outcome.text)
    [] OTHER -> ModelFailureResult("query", "boom")

\* the AIResponse aiService.query returns for these backend events
QueryResultOf(outcome) ==
  CASE outcome.kind = "agent" -> AgentQueryResult(outcome.text)
    [] outcome.kind = "model" -> ModelSuccessResult("query", outcome.text)
    [] OTHER -> ModelFailureResult("query", "boom")

NoKbResult == [success |-> FALSE, response |-> NoText, source |-> "none",
               knowledgeBaseUsed |-> Unscoped]

KbAfterQuery_IgnoresSuccess(result, i, n) == IF i < n THEN "loop" ELSE "general"

\* the loop body after aiService.query: return on success, else next i
KbAfterQuery(result, i, n) ==
  IF result.success THEN "done" ELSE IF i < n THEN "loop" ELSE "general"

\* entry: the loop is entered only if knowledge bases are configured
queryWithKnowledgeBasePriority ==
  /\ kbPc = "start"
  /\ kbPc' = IF Len(kbIds) > 0 THEN "loop" ELSE "general"
  /\ kbIndex' = 1
  /\ UNCHANGED <<notKb, kbIds, kbQueries, kbResult>>

\* one iteration: aiService.query(question, userId, channelId, {knowledgeBaseId: kbId})
KbQuery(outcome) ==
  /\ kbPc = "loop"
  /\ LET kbId == kbIds[kbIndex]
         result == QueryResultOf(outcome)
         next == KbAfterQuery(result, kbIndex, Len(kbIds))
     IN /\ kbQueries' = Append(kbQueries, [kb |-> kbId, outcome |-> outcome, result |-> result])
        /\ kbPc' = next
        /\ kbIndex' = IF next = "loop" THEN kbIndex + 1 ELSE kbIndex
        /\ kbResult' = IF next = "done"
                         THEN [success |-> result.success, response |-> result.response,
                               source |-> "knowledge base", knowledgeBaseUsed |-> kbId]
                         ELSE kbResult
  /\ UNCHANGED <<notKb, kbIds>>

\* the fallback: aiService.query(question, userId, channelId)
GeneralQuery(outcome) ==
  /\ kbPc = "general"
  /\ LET result == QueryResultOf(outcome)
     IN /\ kbQueries' = Append(kbQueries,
                          [kb |-> Unscoped, outcome |-> outcome, result |-> result])
        /\ kbResult' = [success |-> result.success, response |-> result.response,
                        source |-> "general AI", knowledgeBaseUsed |-> Unscoped]
  /\ kbPc' = "done"
  /\ UNCHANGED <<notKb, kbIds, kbIndex>>

IdleKb ==
  /\ kbIds = <<>>
  /\ kbPc = "start"
  /\ kbIndex = 1
  /\ kbQueries = <<>>
  /\ kbResult = NoKbResult

\* ---------------------------------------------------------------------------
\* The "ask:" pattern: the Bolt handler app.message(/^ask:\s*(.*)/i) and the
\* HTTP handleMessage of slack/responses.js. A text is a sequence of tokens:
\* "ask:" is the literal prefix, " " a blank, "w" any other character.
\* ---------------------------------------------------------------------------

MaxAskLen == 3

AskTokens == {"ask:", " ", "w"}
AskPaths == {"bolt", "http"}
AskTexts == UNION {[1..n -> AskTokens] : n \in 0..MaxAskLen}

\* /^ask:\s*(.*)/i: the prefix, then anything (also nothing)
MatchesAskAny(text) == text # <<>> /\ Head(text) = "ask:"

\* /^ask:\s*(.+)/i: the prefix, then at least one character ("." accepts a
\* blank, \s* may match no blank)
MatchesAskSome(text) == text # <<>> /\ Head(text) = "ask:" /\ Len(text) >= 2

\* text.replace(/^ask:\s*/i, "").trim()
AskQuestion(text) == Trim(IF MatchesAskAny(text) THEN Tail(text) ELSE text)

AskMessage(kind, ok) == [kind |-> kind, ok |-> ok]

\* what the handler does once it has the question
AskDispatch(question, ok) ==
  IF question = <<>>
    THEN [sent |-> <<AskMessage("askEmptyResponse", ok)>>, pc |-> IF ok THEN "done" ELSE "failed"]
    ELSE [sent |-> <<>>, pc |-> "placeholder"]

\* the Bolt ask handler; Bolt calls it only for a text the pattern matches, and
\* a say that throws is answered by the say of the catch block
BoltAsk(ok) ==
  /\ askPc = "start"
  /\ askPath = "bolt"
  /\ IF MatchesAskAny(askText)
       THEN LET d == AskDispatch(AskQuestion(askText), ok)
            IN /\ askSent' = IF d.pc = "failed"
                               THEN d.sent \o <<AskMessage("error", TRUE)>> ELSE d.sent
               /\ askPc' = IF d.pc = "failed" THEN "done" ELSE d.pc
       ELSE /\ askPc' = "ignored"
            /\ UNCHANGED askSent
  /\ UNCHANGED <<notAsk, askPath, askText, askBackend>>

\* handleMessage: the text is trimmed first, the ask branch is entered only if
\* something follows the prefix, and sendMessage returns null on failure
HttpHandleMessage(ok) ==
  /\ askPc = "start"
  /\ askPath = "http"
  /\ LET text == Trim(askText)
     IN IF text = <<>>
          THEN askPc' = "ignored" /\ UNCHANGED askSent
        ELSE IF MatchesAskSome(text)
          THEN LET d == AskDispatch(AskQuestion(text), ok)
               IN /\ askSent' = d.sent
                  /\ askPc' = IF d.pc = "failed" THEN "done" ELSE d.pc
        ELSE askPc' = "unanswered" /\ UNCHANGED askSent
  /\ UNCHANGED <<notAsk, askPath, askText, askBackend>>

AskPlaceholder_StreamAnyway(ok) ==
  /\ askPc = "placeholder"
  /\ askSent' = Append(askSent, AskMessage("placeholder", ok))
  /\ askPc' = "stream"
  /\ UNCHANGED <<notAsk, askPath, askText, askBackend>>

\* handleStreamingResponse: the placeholder message
AskPlaceholder(ok) ==
  /\ askPc = "placeholder"
  /\ askSent' = Append(askSent, AskMessage("placeholder", ok))
  /\ askPc' = IF ok THEN "stream"
              ELSE IF askPath = "bolt" THEN "catch" ELSE "done"
  /\ UNCHANGED <<notAsk, askPath, askText, askBackend>>

\* handleStreamingResponse: aiService.stream(question, ...)
AskStream ==
  /\ askPc = "stream"
  /\ askBackend' = askBackend + 1
  /\ askPc' = "done"
  /\ UNCHANGED <<notAsk, askPath, askText, askSent>>

\* the catch block of the Bolt handler
AskCatch ==
  /\ askPc = "catch"
  /\ askSent' = Append(askSent, AskMessage("error", TRUE))
  /\ askPc' = "done"
  /\ UNCHANGED <<notAsk, askPath, askText, askBackend>>

IdleAsk ==
  /\ askPath = "bolt"
  /\ askText = <<>>
  /\ askPc = "start"
  /\ askSent = <<>>
  /\ askBackend = 0

\* ---------------------------------------------------------------------------
\* The agent session id. A string is a sequence of segments, each a run of
\* characters from one source with its length.
\* ---------------------------------------------------------------------------

MaxSessionIdLength == 100

IdLengths == {0, 9, 11, 40, 80, 100, 120}
NowDigits == {13}

Seg(tag, n) == [tag |-> tag, len |-> n]

RECURSIVE TextLen(_)
TextLen(s) == IF s = <<>> THEN 0 ELSE Head(s).len + TextLen(Tail(s))

RECURSIVE substring(_, _)

substring_NoLimit(s, n) == s

\* String.prototype.substring(0, n)
substring(s, n) ==
  IF s = <<>> \/ n <= 0 THEN <<>>
  ELSE IF Head(s).len <= n THEN <<Head(s)>> \o substring(Tail(s), n - Head(s).len)
  ELSE <<Seg(Head(s).tag, n)>>

\* `slack-${userId}-${channelId}-${Date.now()}`
SessionTemplate(u, c, t) ==
  <<Seg("slack-", 6), Seg("userId", u), Seg("-", 1), Seg("channelId", c), Seg("-", 1),
    Seg("now", t)>>

BuildSessionId(u, c, t) == substring(SessionTemplate(u, c, t), MaxSessionIdLength)

\* _queryAgent builds its session id
QueryAgentSessionId ==
  /\ sidOp = "none"
  /\ sidOp' = "query"
  /\ sessionId' = BuildSessionId(sidUser, sidChannel, sidNow)
  /\ UNCHANGED <<notSid, sidUser, sidChannel, sidNow>>

\* _streamAgent builds its session id
StreamAgentSessionId ==
  /\ sidOp = "none"
  /\ sidOp' = "stream"
  /\ sessionId' = BuildSessionId(sidUser, sidChannel, sidNow)
  /\ UNCHANGED <<notSid, sidUser, sidChannel, sidNow>>

IdleSid ==
  /\ sidUser = 0
  /\ sidChannel = 0
  /\ sidNow = 0
  /\ sidOp = "none"
  /\ sessionId = <<>>

\* ---------------------------------------------------------------------------
\* Citation extraction: the forEach over retrievedReferences in _queryAgent
\* and in streamGenerator (the two copies are the same code).
\* ---------------------------------------------------------------------------

MaxRefs == 3

TitleChars == 50

\* the location variants in the order the code reads them
Variants == <<"s3", "web", "confluence", "salesforce", "sharepoint", "kendra">>
VariantNames == {Variants[i] : i \in DOMAIN Variants}

\* a location variant of a reference: not there, there without a uri (undefined
\* or ""), there with a uri
LocStates == {"absent", "nouri", "uri"}

NoUri == <<>>

\* the uri a variant carries: references name their document by ref.u
UriOf(v, u) == <<v, u>>

\* ref.location?.<variant>?.uri (or .url)
variantUri(ref, v) == IF ref.loc[v] = "uri" THEN UriOf(v, ref.u) ELSE NoUri

RECURSIVE firstUri_LastWins(_, _)
RECURSIVE firstUri(_, _)

firstUri_LastWins(ref, i) ==
  IF i > Len(Variants) THEN NoUri
  ELSE LET rest == firstUri_LastWins(ref, i + 1)
       IN IF rest # NoUri THEN rest ELSE variantUri(ref, Variants[i])

\* the || chain over the variants, from position i on
firstUri(ref, i) ==
  IF i > Len(Variants) THEN NoUri
  ELSE IF variantUri(ref, Variants[i]) # NoUri THEN variantUri(ref, Variants[i])
  ELSE firstUri(ref, i + 1)

resolveUri(ref) == firstUri(ref, 1)

\* ref.content?.text?.substring(0, 50) + "...": an absent text is undefined,
\* and undefined + "..." is the string "undefined..."
contentTitle(ref) ==
  (IF ref.content.present THEN substring(ref.content.text, TitleChars)
                          ELSE <<Seg("undefined", 9)>>) \o <<Seg("...", 3)>>

\* ref.metadata?.title || <content title> || "Source document"
resolveTitle(ref) ==
  IF ref.title # <<>> THEN ref.title
  ELSE IF contentTitle(ref) # <<>> THEN contentTitle(ref)
  ELSE <<Seg("Source document", 15)>>

\* the ?: chain of the type: the first variant that is there
RECURSIVE firstPresent(_, _)
firstPresent(ref, i) ==
  IF i > Len(Variants) THEN "unknown"
  ELSE IF ref.loc[Variants[i]] # "absent" THEN Variants[i]
  ELSE firstPresent(ref, i + 1)

resolveType(ref) == firstPresent(ref, 1)

IsDuplicate_UriOnly(cs, uri, title) == \E i \in DOMAIN cs : cs[i].uri = uri

\* citations.find((c) => c.uri === uri || c.title === title)
IsDuplicate(cs, uri, title) ==
  \E i \in DOMAIN cs : cs[i].uri = uri \/ cs[i].title = title

\* the body of retrievedReferences.forEach for one reference
extractReference(cs, ref) ==
  LET uri == resolveUri(ref)
      title == resolveTitle(ref)
  IN IF uri = NoUri THEN cs
     ELSE IF IsDuplicate(cs, uri, title) THEN cs
     ELSE Append(cs, [uri |-> uri, title |-> title, type |-> resolveType(ref)])

queryTypeEmoji_AlwaysDefault(citationType) == "clipboard"

\* the ?: chain that picks the glyph in _queryAgent
queryTypeEmoji(citationType) ==
  IF citationType = "s3" THEN "page"
  ELSE IF citationType = "web" THEN "globe"
  ELSE IF citationType = "confluence" THEN "memo"
  ELSE IF citationType = "salesforce" THEN "zap"
  ELSE IF citationType = "sharepoint" THEN "chart"
  ELSE IF citationType = "kendra" THEN "magnifier"
  ELSE "clipboard"

\* citations.forEach((citation, index) => responseWithCitations += ...)
RECURSIVE querySourcesEntries(_, _)
querySourcesEntries(cs, index) ==
  IF cs = <<>> THEN <<>>
  ELSE <<ToString(index + 1), queryTypeEmoji(Head(cs).type), Head(cs).title, Head(cs).uri>>
         \o querySourcesEntries(Tail(cs), index + 1)

\* what _queryAgent appends to the response text for its citations
querySources(cs) ==
  IF Len(cs) > 0 THEN <<SourcesHeader>> \o querySourcesEntries(cs, 0) ELSE <<>>

Content(present, text) == [present |-> present, text |-> text]

Contents ==
  {Content(FALSE, <<>>), Content(TRUE, <<Seg("short", 20)>>), Content(TRUE, <<Seg("long", 80)>>)}

\* every shape of a single reference
Refs ==
  [loc : [VariantNames -> LocStates], u : {"u1"}, title : {<<>>, <<Seg("t1", 2)>>},
   content : Contents]

\* references that can collide with one another in uri or in title
DedupRefs ==
  {r \in [loc : [VariantNames -> {"absent", "uri"}], u : {"u1", "u2"},
          title : {<<>>, <<Seg("t1", 2)>>}, content : {Content(TRUE, <<Seg("long", 80)>>)}] :
     \E v \in {"s3", "web", "kendra"} :
       r.loc[v] = "uri" /\ \A w \in VariantNames \ {v} : r.loc[w] = "absent"}

\* one iteration of retrievedReferences.forEach
ExtractReference ==
  /\ citePending # <<>>
  /\ citeList' = extractReference(citeList, Head(citePending))
  /\ citeDone' = Append(citeDone, Head(citePending))
  /\ citePending' = Tail(citePending)
  /\ UNCHANGED notCite

IdleCite ==
  /\ citePending = <<>>
  /\ citeDone = <<>>
  /\ citeList = <<>>

\* ---------------------------------------------------------------------------
\* The app_mention handler (handlers/mentionHandler.ts). A text is a sequence
\* of tokens: a mention token, a blank, the one-character word "x", one
\* keyword of each pattern and the word "what" that matches no pattern.
\* ---------------------------------------------------------------------------

MaxMentionLen == 3

MentionToken == "<@U1>"

MentionTokens == {MentionToken, " ", "x", "hi", "help", "thanks", "status", "info", "what"}

MentionTexts == UNION {[1..n -> MentionTokens] : n \in 0..MaxMentionLen}

\* String length of a token
WordWidth(t) ==
  CASE t = " " -> 1 [] t = "x" -> 1 [] t = "hi" -> 2 [] t = "help" -> 4 [] t = "thanks" -> 6
    [] t = "status" -> 6 [] t = "info" -> 4 [] t = "what" -> 4 [] OTHER -> 5

RECURSIVE MentionLen(_)
MentionLen(s) == IF s = <<>> THEN 0 ELSE WordWidth(Head(s)) + MentionLen(Tail(s))

IsNotMention(t) == t # MentionToken

\* event.text?.replace(/<@[UW][A-Z0-9]+>/g, "").trim() || ""
CleanMention(text) == Trim(SelectSeq(text, IsNotMention))

\* the patterns in the order the handler tests them, each with the keyword of
\* the token alphabet its regular expression accepts as a prefix
MentionPatterns ==
  << [category |-> "greeting", keyword |-> "hi"],
     [category |-> "help", keyword |-> "help"],
     [category |-> "thanks", keyword |-> "thanks"],
     [category |-> "status", keyword |-> "status"],
     [category |-> "info", keyword |-> "info"] >>

MentionIsEmpty_OnlyNoText(text) == text = <<>>

\* !text || text.length < 2
MentionIsEmpty(text) == text = <<>> \/ MentionLen(text) < 2

\* the chain of if (/^(...)/i.test(text)) from pattern i on
RECURSIVE firstPattern(_, _)
firstPattern(text, i) ==
  IF i > Len(MentionPatterns) THEN "ai"
  ELSE IF Head(text) = MentionPatterns[i].keyword THEN MentionPatterns[i].category
  ELSE firstPattern(text, i + 1)

routeMention(text) == IF MentionIsEmpty(text) THEN "empty" ELSE firstPattern(text, 1)

MentionSay(kind, ok) == [kind |-> kind, ok |-> ok]

\* a canned or informational category: one say, then return
MentionReply(ok) ==
  /\ menPc = "start"
  /\ routeMention(CleanMention(menText)) # "ai"
  /\ menReplies' = Append(menReplies, MentionSay(routeMention(CleanMention(menText)), ok))
  /\ menPc' = IF ok THEN "done" ELSE "catch"
  /\ UNCHANGED <<notMen, menText, menAi>>

\* the default: handleStreamingResponse(text, event, app, prefix)
MentionStream(ok) ==
  /\ menPc = "start"
  /\ routeMention(CleanMention(menText)) = "ai"
  /\ menAi' = Append(menAi, CleanMention(menText))
  /\ menPc' = IF ok THEN "done" ELSE "catch"
  /\ UNCHANGED <<notMen, menText, menReplies>>

\* the catch block: say of the generic error message, not itself guarded
MentionCatch(ok) ==
  /\ menPc = "catch"
  /\ menReplies' = Append(menReplies, MentionSay("error", ok))
  /\ menPc' = IF ok THEN "done" ELSE "rejected"
  /\ UNCHANGED <<notMen, menText, menAi>>

IdleMen ==
  /\ menText = <<>>
  /\ menPc = "start"
  /\ menReplies = <<>>
  /\ menAi = <<>>

\* ---------------------------------------------------------------------------
\* The Lambda events handler (handlers/slackEventsHandler.ts, both variants
\* in the file) with verifySlackSignature of the Lambda utilities.
\* ---------------------------------------------------------------------------

\* sig: the X-Slack-Signature header against the expected signature; ts: the
\* X-Slack-Request-Timestamp header against the clock; variant: which of the
\* two handlers in the file runs (the second one knows Slack's retry headers)
Requests ==
  [variant : {"first", "second"},
   method : {"POST", "GET", "OPTIONS"},
   retry : BOOLEAN,
   bodyOk : BOOLEAN,
   sig : {"missing", "valid", "wrong", "wrongLength"},
   ts : {"missing", "fresh", "stale"},
   bodyType : {"url_verification", "event_callback"}]

NoRequest ==
  [variant |-> "first", method |-> "POST", retry |-> FALSE, bodyOk |-> TRUE,
   sig |-> "valid", ts |-> "fresh", bodyType |-> "event_callback"]

\* verifySlackSignature: false for a timestamp more than 300 s off; otherwise
\* crypto.timingSafeEqual, which throws RangeError for buffers of different
\* byte length
verifySlackSignature(sig, ts) ==
  IF ts = "stale" THEN "false"
  ELSE IF sig = "wrongLength" THEN "throws"
  ELSE IF sig = "valid" THEN "true" ELSE "false"

\* !slackSignature || !timestamp || !verifySlackSignature(...): 401, or the
\* exception of the verification reaching the outer catch: 500
signatureGate(req) ==
  IF req.sig = "missing" \/ req.ts = "missing" THEN 401
  ELSE IF verifySlackSignature(req.sig, req.ts) = "throws" THEN 500
  ELSE IF verifySlackSignature(req.sig, req.ts) = "false" THEN 401
  ELSE 0

requestGate_NoRetryCheck(req) ==
  IF req.method = "OPTIONS" THEN 200
  ELSE IF req.method # "POST" THEN 405
  ELSE IF ~req.bodyOk THEN 400
  ELSE IF signatureGate(req) # 0 THEN signatureGate(req)
  ELSE IF req.bodyType = "url_verification" THEN 200
  ELSE 0

\* the checks of the handler up to initializeSlackApp, in their order: the
\* status returned, or 0 if the request goes on to the Slack app
requestGate(req) ==
  IF req.method = "OPTIONS" THEN 200
  ELSE IF req.variant = "second" /\ req.retry THEN 200
  ELSE IF req.method # "POST" THEN 405
  ELSE IF ~req.bodyOk THEN 400
  ELSE IF signatureGate(req) # 0 THEN signatureGate(req)
  ELSE IF req.bodyType = "url_verification" THEN 200
  ELSE 0

\* the handler up to its first return or to initializeSlackApp
HttpReceive ==
  /\ httpPc = "start"
  /\ httpStatus' = requestGate(httpReq)
  /\ httpPc' = IF requestGate(httpReq) = 0 THEN "init" ELSE "done"
  /\ UNCHANGED <<notHttp, httpReq, httpHandlers, slackApp>>

\* the ways initializeSlackApp can end when slackApp is not set
InitOutcomes == {"ok", "createThrows", "handlersThrow"}

\* await initializeSlackApp(), outside the inner try: a failure reaches the
\* outer catch. slackApp is assigned before initializeHandlers is awaited,
\* so it stays set when initializeHandlers throws.
HttpInitializeApp(outcome) ==
  /\ httpPc = "init"
  /\ IF slackApp \/ outcome = "ok"
       THEN /\ slackApp' = TRUE
            /\ httpPc' = "process"
            /\ UNCHANGED httpStatus
       ELSE /\ slackApp' = (outcome = "handlersThrow")
            /\ httpStatus' = 500
            /\ httpPc' = "done"
  /\ UNCHANGED <<notHttp, httpReq, httpHandlers>>

\* the inner try: the event handler runs; its failure is logged and answered 200
HttpProcessEvent(ok) ==
  /\ httpPc = "process"
  /\ httpHandlers' = httpHandlers + 1
  /\ httpStatus' = 200
  /\ httpPc' = "done"
  /\ UNCHANGED <<notHttp, httpReq, slackApp>>

IdleHttp ==
  /\ httpReq = NoRequest
  /\ httpPc = "start"
  /\ httpStatus = 0
  /\ httpHandlers = 0
  /\ slackApp = FALSE

\* ---------------------------------------------------------------------------
\* The HTTP entry points: exports.handler of lambda.js, the /slack/events
\* route of app.js, and the handler of handlers/slackEventsHandler.ts.
\* ---------------------------------------------------------------------------

EntryPoints == {"lambda.js", "app.js", "slackEventsHandler.ts"}

EntryRequests ==
  [entry : EntryPoints,
   bodyOk : BOOLEAN,
   sig : {"missing", "valid", "wrong", "wrongLength"},
   ts : {"missing", "fresh", "stale"},
   bodyType : {"url_verification", "event_callback"}]

NoEntryRequest ==
  [entry |-> "lambda.js", bodyOk |-> TRUE, sig |-> "valid", ts |-> "fresh",
   bodyType |-> "event_callback"]

\* verifySlackSignature of slack/verify.js: false for a missing header, a
\* timestamp more than 300 s off, and for anything thrown inside (the
\* RangeError of timingSafeEqual included)
jsVerifySlackSignature(sig, ts) ==
  IF sig = "missing" \/ ts = "missing" THEN FALSE
  ELSE IF ts = "stale" THEN FALSE
  ELSE sig = "valid"

\* lambda.js and app.js: JSON.parse, then the url_verification challenge is
\* echoed, and only then the signature is verified
JsEntryReceive ==
  /\ entPc = "start"
  /\ entReq.entry \in {"lambda.js", "app.js"}
  /\ IF ~entReq.bodyOk
       THEN /\ entStatus' = 500
            /\ entPc' = "done"
            /\ UNCHANGED <<entVerified, entActed>>
       ELSE IF entReq.bodyType = "url_verification"
       THEN /\ entStatus' = 200
            /\ entActed' = "challenge"
            /\ entPc' = "done"
            /\ UNCHANGED entVerified
       ELSE IF ~jsVerifySlackSignature(entReq.sig, entReq.ts)
       THEN /\ entStatus' = 401
            /\ entPc' = "done"
            /\ UNCHANGED <<entVerified, entActed>>
       ELSE /\ entVerified' = TRUE
            /\ entPc' = "handle"
            /\ UNCHANGED <<entStatus, entActed>>
  /\ UNCHANGED <<notEntry, entReq>>

\* slackEventsHandler.ts for a POST that is no retry: body, signature, then
\* the url_verification challenge
TsEntryReceive ==
  /\ entPc = "start"
  /\ entReq.entry = "slackEventsHandler.ts"
  /\ IF ~entReq.bodyOk
       THEN /\ entStatus' = 400
            /\ entPc' = "done"
            /\ UNCHANGED <<entVerified, entActed>>
       ELSE IF signatureGate(entReq) # 0
       THEN /\ entStatus' = signatureGate(entReq)
            /\ entPc' = "done"
            /\ UNCHANGED <<entVerified, entActed>>
       ELSE IF entReq.bodyType = "url_verification"
       THEN /\ entVerified' = TRUE
            /\ entStatus' = 200
            /\ entActed' = "challenge"
            /\ entPc' = "done"
       ELSE /\ entVerified' = TRUE
            /\ entPc' = "handle"
            /\ UNCHANGED <<entStatus, entActed>>
  /\ UNCHANGED <<notEntry, entReq>>

\* the event is handed to the handlers: createEventHandler of the JS entry
\* points (500 when it throws), processing in the TS handler (200 either way)
EntryHandle(ok) ==
  /\ entPc = "handle"
  /\ entActed' = "event"
  /\ entStatus' = IF ok \/ entReq.entry = "slackEventsHandler.ts" THEN 200 ELSE 500
  /\ entPc' = "done"
  /\ UNCHANGED <<notEntry, entReq, entVerified>>

IdleEntry ==
  /\ entReq = NoEntryRequest
  /\ entPc = "start"
  /\ entStatus = 0
  /\ entVerified = FALSE
  /\ entActed = "none"

\* ---------------------------------------------------------------------------
\* The shared AIService instance (export default new AIService()) under
\* concurrent callers. initialize() holds no await: its body runs to the end
\* in the step of the caller that entered it.
\* ---------------------------------------------------------------------------

MaxInitAttempts == 3

Callers == {"c1", "c2", "c3"}

\* the ways the body of initialize can end
SharedInitOutcomes == {"ok", "bedrockThrows", "agentClientThrows"}

initializeReturnsEarly_Never == FALSE

\* if (this.initialized) return;
initializeReturnsEarly == shInitialized

\* await this.initialize() of query() or stream(): the body of initialize
\* runs at once; the caller resumes in a later step
SharedInitialize(c, outcome) ==
  /\ shPc[c] = "idle"
  /\ IF initializeReturnsEarly
       THEN /\ shPc' = [shPc EXCEPT ![c] = "awaitInit"]
            /\ UNCHANGED <<shInitialized, shModel, shAgentClient, shCreated>>
       ELSE /\ shCreated.model < MaxInitAttempts
            /\ IF outcome = "bedrockThrows"
                 THEN /\ shPc' = [shPc EXCEPT ![c] = "rejected"]
                      /\ UNCHANGED <<shInitialized, shModel, shAgentClient, shCreated>>
                 ELSE IF outcome = "agentClientThrows" /\ shAgentId
                 THEN /\ shModel' = TRUE
                      /\ shCreated' = [shCreated EXCEPT !.model = @ + 1]
                      /\ shPc' = [shPc EXCEPT ![c] = "rejected"]
                      /\ UNCHANGED <<shInitialized, shAgentClient>>
                 ELSE /\ shModel' = TRUE
                      /\ shAgentClient' = shAgentId
                      /\ shCreated' =
                           [model |-> shCreated.model + 1,
                            agent |-> shCreated.agent + (IF shAgentId THEN 1 ELSE 0)]
                      /\ shInitialized' = TRUE
                      /\ shPc' = [shPc EXCEPT ![c] = "awaitInit"]
  /\ UNCHANGED <<notShared, shAgentId>>

\* the caller resumes after the await and handles its request, reading
\* this.agentClient and this.model
SharedHandle(c) ==
  /\ shPc[c] = "awaitInit"
  /\ shPc' = [shPc EXCEPT ![c] = IF shAgentClient THEN "agent" ELSE "model"]
  /\ UNCHANGED <<notShared, shAgentId, shInitialized, shModel, shAgentClient, shCreated>>

\* the call returns or rejects; the next request of the caller can come
SharedReturn(c) ==
  /\ shPc[c] \in {"agent", "model", "rejected"}
  /\ shPc' = [shPc EXCEPT ![c] = "idle"]
  /\ UNCHANGED <<notShared, shAgentId, shInitialized, shModel, shAgentClient, shCreated>>

IdleShared ==
  /\ shAgentId = FALSE
  /\ shInitialized = FALSE
  /\ shModel = FALSE
  /\ shAgentClient = FALSE
  /\ shCreated = [model |-> 0, agent |-> 0]
  /\ shPc = [c \in Callers |-> "idle"]

\* ---------------------------------------------------------------------------
\* Message events on the HTTP paths: handleMessage of slack/responses.js and
\* the message dispatch of handlers/slackEventsHandler.ts, which calls the
\* handlers of handlers/messageHandler.ts. Every message the bot posts comes
\* back from Slack as a message event carrying bot_id. (The ask patterns of
\* handleMessage are modelled with the ask handlers above.)
\* ---------------------------------------------------------------------------

MaxPosts == 4

LoopPaths == {"responses.js", "slackEventsHandler.ts"}

LoopWords == {"hello", "help", "x"}

\* event.text as its words; "x" is any word without "hello" and "help"
LoopTexts == UNION {[1..n -> LoopWords] : n \in 0..2}

\* bot_id: the event carries one; user: the event has a user field;
\* im: channel_type is "im"
MessageEvents == [bot_id : BOOLEAN, user : BOOLEAN, im : BOOLEAN, text : LoopTexts]

\* the texts of the replies: the hello reply of messageHandler.ts says
\* "Hello" (includes("hello") is case-sensitive), its help text lists
\* `hello` and `help`
HelloReply == <<"x">>
HelpReply == <<"hello", "help">>

Includes(text, w) == \E i \in 1..Len(text) : text[i] = w

\* if (event.bot_id || ...) return of handleMessage
SkipsBotMessages(e) == e.bot_id

\* handleMessage of responses.js: the texts it sends for the event
responsesReplies(e) ==
  IF SkipsBotMessages(e) \/ e.text = <<>> THEN <<>>
  ELSE IF e.im /\ e.text[1] = "hello" THEN <<HelloReply>>
  ELSE IF e.im /\ e.text[1] = "help" THEN <<HelpReply>>
  ELSE <<>>

\* the message dispatch of slackEventsHandler.ts: every handler of
\* registerMessageHandlers whose pattern matches is called; the hello and the
\* help handler reply when the message has a user
eventsReplies(e) ==
  IF e.text = <<>> \/ ~e.user THEN <<>>
  ELSE (IF Includes(e.text, "hello") THEN <<HelloReply>> ELSE <<>>)
         \o (IF Includes(e.text, "help") THEN <<HelpReply>> ELSE <<>>)

\* the message event Slack sends for a message the bot posted
OwnMessage(text, user) == [bot_id |-> TRUE, user |-> user, im |-> FALSE, text |-> text]

\* the next message event is handled: its replies are posted and come back
LoopHandle(replies, user) ==
  /\ loopInbox # <<>>
  /\ Len(loopPosts) + Len(replies) <= MaxPosts
  /\ loopPosts' = loopPosts \o
       [i \in 1..Len(replies) |-> [text |-> replies[i], toBot |-> Head(loopInbox).bot_id]]
  /\ loopInbox' = Tail(loopInbox) \o
       [i \in 1..Len(replies) |-> OwnMessage(replies[i], user)]
  /\ UNCHANGED <<notLoop, loopPath>>

\* handleMessage
ResponsesHandleMessage(user) ==
  /\ loopPath = "responses.js"
  /\ LoopHandle(responsesReplies(Head(loopInbox)), user)

\* the else-if branch for message events of the Lambda events handler
EventsHandleMessage(user) ==
  /\ loopPath = "slackEventsHandler.ts"
  /\ LoopHandle(eventsReplies(Head(loopInbox)), user)

IdleLoop ==
  /\ loopPath = "responses.js"
  /\ loopInbox = <<>>
  /\ loopPosts = <<>>

\* ---------------------------------------------------------------------------
\* streamGenerator of _streamAgent: what it yields for a completion.
\* ---------------------------------------------------------------------------

MaxCompletion == 2

\* the references attributed in completion events
GenRefs == {r \in DedupRefs : r.loc["s3"] = "uri"}

\* an event of response.completion: chunk.bytes decoded ("" when absent) and
\* the retrievedReferences of chunk.attribution.citations
CompletionEvents ==
  [bytes : {"", "a"}, refs : {<<>>} \cup {<<r>> : r \in GenRefs}]

Yielded(type, content) == [type |-> type, content |-> content]

\* retrievedReferences.forEach over the references of one event
RECURSIVE extractAll(_, _)
extractAll(cs, refs) ==
  IF refs = <<>> THEN cs ELSE extractAll(extractReference(cs, Head(refs)), Tail(refs))

\* one iteration of for await (const chunk of response.completion)
GenChunk ==
  /\ genPc = "loop"
  /\ genPos < Len(genCompletion)
  /\ LET ev == genCompletion[genPos + 1]
     IN /\ genPos' = genPos + 1
        /\ IF ev.bytes # ""
             THEN /\ genFull' = Append(genFull, ev.bytes)
                  /\ genOut' = Append(genOut, Yielded("text", <<ev.bytes>>))
             ELSE UNCHANGED <<genFull, genOut>>
        /\ genCites' = extractAll(genCites, ev.refs)
  /\ UNCHANGED <<notGen, genCompletion, genPc>>

\* response.completion raises: the generator ends with that exception
GenCompletionThrows ==
  /\ genPc = "loop"
  /\ genPc' = "thrown"
  /\ UNCHANGED <<notGen, genCompletion, genPos, genFull, genCites, genOut>>

GenCitations_Always ==
  /\ genPc = "loop"
  /\ genPos = Len(genCompletion)
  /\ genOut' = Append(genOut, Yielded("citations", genCites))
  /\ genPc' = "complete"
  /\ UNCHANGED <<notGen, genCompletion, genPos, genFull, genCites>>

\* after the loop: if (citations.length > 0) yield the citations
GenCitations ==
  /\ genPc = "loop"
  /\ genPos = Len(genCompletion)
  /\ genOut' = IF genCites # <<>>
                 THEN Append(genOut, Yielded("citations", genCites)) ELSE genOut
  /\ genPc' = "complete"
  /\ UNCHANGED <<notGen, genCompletion, genPos, genFull, genCites>>

\* yield { type: "complete", content: fullResponse }; the generator returns
GenComplete ==
  /\ genPc = "complete"
  /\ genOut' = Append(genOut, Yielded("complete", genFull))
  /\ genPc' = "returned"
  /\ UNCHANGED <<notGen, genCompletion, genPos, genFull, genCites>>

IdleGen ==
  /\ genCompletion = <<>>
  /\ genPc = "loop"
  /\ genPos = 0
  /\ genFull = <<>>
  /\ genCites = <<>>
  /\ genOut = <<>>

IdleExt == IdleConc /\ IdleLambda /\ IdleKb /\ IdleAsk /\ IdleSid /\ IdleCite /\ IdleMen /\ IdleHttp /\ IdleEntry /\ IdleShared /\ IdleLoop /\ IdleGen

IdleService ==
  /\ agentId = ""
  /\ initialized = FALSE
  /\ agentClient = FALSE
  /\ svcPc = "idle"
  /\ svcOp = "query"
  /\ svcQuestion = ""
  /\ svcOpts = [stream |-> FALSE, forceDirectModel |-> FALSE, knowledgeBaseId |-> ""]
  /\ agentCalls = 0
  /\ modelCalls = 0
  /\ agentInput = NoInput
  /\ modelInput = NoInput
  /\ finalResponse = NoText
  /\ agentRead = 0
  /\ svcResult = NoResult
  /\ agentThrew = FALSE
  /\ modelOutcome = NoOutcome

InitStream ==
  /\ path \in Paths
  /\ prefix \in Prefixes
  /\ chunks \in ChunkSeqs
  /\ hPc = "start"
  /\ pos = 0
  /\ fullResponse = <<>>
  /\ citations = <<>>
  /\ now = 0
  /\ lastUpdate = 0
  /\ streamError = ""
  /\ updates = <<>>
  /\ IdleService
  /\ IdleExt

IdleStream ==
  /\ path = "interactive"
  /\ prefix = <<>>
  /\ chunks = <<>>
  /\ hPc = "start"
  /\ pos = 0
  /\ fullResponse = <<>>
  /\ citations = <<>>
  /\ now = 0
  /\ lastUpdate = 0
  /\ streamError = ""
  /\ updates = <<>>


InitService ==
  /\ agentId \in AgentIds
  /\ initialized = FALSE
  /\ agentClient = FALSE
  /\ svcPc = "idle"
  /\ svcOp = "query"
  /\ svcQuestion = ""
  /\ svcOpts = [stream |-> FALSE, forceDirectModel |-> FALSE, knowledgeBaseId |-> ""]
  /\ agentCalls = 0
  /\ modelCalls = 0
  /\ agentInput = NoInput
  /\ modelInput = NoInput
  /\ finalResponse = NoText
  /\ agentRead = 0
  /\ svcResult = NoResult
  /\ agentThrew = FALSE
  /\ modelOutcome = NoOutcome
  /\ IdleStream
  /\ IdleExt

NextService ==
  \/ AgentStreamIterThrows
  \/ \E q \in Questions, o \in QueryOptions : query(q, o)
  \/ \E q \in Questions, o \in QueryOptions : stream(q, o)
  \/ AgentSendThrows
  \/ AgentSendReturns
  \/ \E tok \in AgentTokens : AgentChunk(tok)
  \/ AgentIterThrows
  \/ AgentDone
  \/ \E t \in ModelTexts : ModelReturns(t)
  \/ \E m \in ErrorMessages : ModelThrows(m)

\* the service when initialize() may fail
NextInit ==
  \/ NextService
  \/ \E op \in {"query", "stream"}, q \in Questions, o \in QueryOptions :
       InitializeThrows(op, q, o)

SpecInit == InitService /\ [][NextInit]_vars

NextStream ==
  \/ \E ok \in BOOLEAN : PostPlaceholder(ok)
  \/ \E ok \in BOOLEAN : StreamFailed(ok)
  \/ StreamStarted
  \/ \E dt \in TimeSteps, ok \in BOOLEAN : ReadChunk(dt, ok)
  \/ StreamEnds
  \/ \E m \in StreamErrors : StreamThrows(m)
  \/ \E ok \in BOOLEAN : Finalize(ok)
  \/ \E ok \in BOOLEAN : handleStreamingError(ok)

SpecStream == InitStream /\ [][NextStream]_vars

\* the streaming handlers when aiService.stream may reject
NextStreamRejects ==
  \/ NextStream
  \/ \E m \in StreamErrors : StreamRejects(m)

SpecStreamRejects == InitStream /\ [][NextStreamRejects]_vars

InitConc ==
  /\ resp \in {[r \in Responses |-> InitResponse(r, c[r], s[r])] :
                 c \in {f \in [Responses -> Channels] : f[1] = "C1"},
                 s \in [Responses -> ConcStreams]}
  /\ posted = Cardinality(Responses)
  /\ cNow = 0
  /\ IdleService
  /\ IdleStream
  /\ IdleLambda
  /\ IdleKb
  /\ IdleAsk
  /\ IdleSid
  /\ IdleCite
  /\ IdleMen
  /\ IdleHttp
  /\ IdleEntry
  /\ IdleShared
  /\ IdleLoop
  /\ IdleGen

NextConc ==
  \/ \E r \in Responses, ok \in BOOLEAN : ConcPost(r, ok)
  \/ \E r \in Responses, ok \in BOOLEAN : ConcStreamFailed(r, ok)
  \/ \E r \in Responses : ConcStreamStarted(r)
  \/ \E r \in Responses, dt \in ConcTimeSteps, ok \in BOOLEAN : ConcReadChunk(r, dt, ok)
  \/ \E r \in Responses : ConcStreamEnds(r)
  \/ \E r \in Responses, m \in StreamErrors : ConcStreamThrows(r, m)
  \/ \E r \in Responses, ok \in BOOLEAN : ConcFinalize(r, ok)
  \/ \E r \in Responses, ok \in BOOLEAN : ConcStreamingError(r, ok)

SpecConc == InitConc /\ [][NextConc]_vars

InitLambda ==
  /\ lamPc = "start"
  /\ lamRemaining \in LambdaBudgets
  /\ lamLastUpdate = 0
  /\ lamRead = 0
  /\ lamTotal \in 0..MaxLambdaChunks
  /\ lamCalls = <<>>
  /\ IdleService
  /\ IdleStream
  /\ IdleConc
  /\ IdleKb
  /\ IdleAsk
  /\ IdleSid
  /\ IdleCite
  /\ IdleMen
  /\ IdleHttp
  /\ IdleEntry
  /\ IdleShared
  /\ IdleLoop
  /\ IdleGen

NextLambda ==
  \/ LambdaSay
  \/ LambdaPostPlaceholder
  \/ \E dt \in LambdaTimeSteps : LambdaReadChunk(dt)
  \/ LambdaFinalize
  \/ LambdaStreamingError

SpecLambda == InitLambda /\ [][NextLambda]_vars

InitKb ==
  /\ kbIds \in KbLists
  /\ kbPc = "start"
  /\ kbIndex = 1
  /\ kbQueries = <<>>
  /\ kbResult = NoKbResult
  /\ IdleService
  /\ IdleStream
  /\ IdleConc
  /\ IdleLambda
  /\ IdleAsk
  /\ IdleSid
  /\ IdleCite
  /\ IdleMen
  /\ IdleHttp
  /\ IdleEntry
  /\ IdleShared
  /\ IdleLoop
  /\ IdleGen

NextKb ==
  \/ queryWithKnowledgeBasePriority
  \/ \E o \in KbOutcomes : KbQuery(o)
  \/ \E o \in KbOutcomes : GeneralQuery(o)

SpecKb == InitKb /\ [][NextKb]_vars

InitAsk ==
  /\ askPath \in AskPaths
  /\ askText \in AskTexts
  /\ askPc = "start"
  /\ askSent = <<>>
  /\ askBackend = 0
  /\ IdleService
  /\ IdleStream
  /\ IdleConc
  /\ IdleLambda
  /\ IdleKb
  /\ IdleSid
  /\ IdleCite
  /\ IdleMen
  /\ IdleHttp
  /\ IdleEntry
  /\ IdleShared
  /\ IdleLoop
  /\ IdleGen

NextAsk ==
  \/ \E ok \in BOOLEAN : BoltAsk(ok)
  \/ \E ok \in BOOLEAN : HttpHandleMessage(ok)
  \/ \E ok \in BOOLEAN : AskPlaceholder(ok)
  \/ AskStream
  \/ AskCatch

SpecAsk == InitAsk /\ [][NextAsk]_vars

InitSid ==
  /\ sidUser \in IdLengths
  /\ sidChannel \in IdLengths
  /\ sidNow \in NowDigits
  /\ sidOp = "none"
  /\ sessionId = <<>>
  /\ IdleService
  /\ IdleStream
  /\ IdleConc
  /\ IdleLambda
  /\ IdleKb
  /\ IdleAsk
  /\ IdleCite
  /\ IdleMen
  /\ IdleHttp
  /\ IdleEntry
  /\ IdleShared
  /\ IdleLoop
  /\ IdleGen

NextSid ==
  \/ QueryAgentSessionId
  \/ StreamAgentSessionId

SpecSid == InitSid /\ [][NextSid]_vars

\* a single reference of any shape
InitRef ==
  /\ citePending \in {<<r>> : r \in Refs}
  /\ citeDone = <<>>
  /\ citeList = <<>>
  /\ IdleService
  /\ IdleStream
  /\ IdleConc
  /\ IdleLambda
  /\ IdleKb
  /\ IdleAsk
  /\ IdleSid
  /\ IdleMen
  /\ IdleHttp
  /\ IdleEntry
  /\ IdleShared
  /\ IdleLoop
  /\ IdleGen

\* a list of references that may repeat uris and titles
InitDedup ==
  /\ citePending \in UNION {[1..n -> DedupRefs] : n \in 0..MaxRefs}
  /\ citeDone = <<>>
  /\ citeList = <<>>
  /\ IdleService
  /\ IdleStream
  /\ IdleConc
  /\ IdleLambda
  /\ IdleKb
  /\ IdleAsk
  /\ IdleSid
  /\ IdleMen
  /\ IdleHttp
  /\ IdleEntry
  /\ IdleShared
  /\ IdleLoop
  /\ IdleGen

NextCite == ExtractReference

SpecRef == InitRef /\ [][NextCite]_vars

SpecDedup == InitDedup /\ [][NextCite]_vars

InitMen ==
  /\ menText \in MentionTexts
  /\ menPc = "start"
  /\ menReplies = <<>>
  /\ menAi = <<>>
  /\ IdleService
  /\ IdleStream
  /\ IdleConc
  /\ IdleLambda
  /\ IdleKb
  /\ IdleAsk
  /\ IdleSid
  /\ IdleCite
  /\ IdleHttp
  /\ IdleEntry
  /\ IdleShared
  /\ IdleLoop
  /\ IdleGen

NextMen ==
  \/ \E ok \in BOOLEAN : MentionReply(ok)
  \/ \E ok \in BOOLEAN : MentionStream(ok)
  \/ \E ok \in BOOLEAN : MentionCatch(ok)

SpecMen == InitMen /\ [][NextMen]_vars

InitHttp ==
  /\ httpReq \in Requests
  /\ httpPc = "start"
  /\ httpStatus = 0
  /\ httpHandlers = 0
  /\ slackApp \in BOOLEAN
  /\ IdleService
  /\ IdleStream
  /\ IdleConc
  /\ IdleLambda
  /\ IdleKb
  /\ IdleAsk
  /\ IdleSid
  /\ IdleCite
  /\ IdleMen
  /\ IdleEntry
  /\ IdleShared
  /\ IdleLoop
  /\ IdleGen

NextHttp ==
  \/ HttpReceive
  \/ \E outcome \in InitOutcomes : HttpInitializeApp(outcome)
  \/ \E ok \in BOOLEAN : HttpProcessEvent(ok)

SpecHttp == InitHttp /\ [][NextHttp]_vars

InitEntry ==
  /\ entReq \in EntryRequests
  /\ entPc = "start"
  /\ entStatus = 0
  /\ entVerified = FALSE
  /\ entActed = "none"
  /\ IdleService
  /\ IdleStream
  /\ IdleConc
  /\ IdleLambda
  /\ IdleKb
  /\ IdleAsk
  /\ IdleSid
  /\ IdleCite
  /\ IdleMen
  /\ IdleHttp
  /\ IdleShared
  /\ IdleLoop
  /\ IdleGen

NextEntry ==
  \/ JsEntryReceive
  \/ TsEntryReceive
  \/ \E ok \in BOOLEAN : EntryHandle(ok)

SpecEntry == InitEntry /\ [][NextEntry]_vars

InitShared ==
  /\ shAgentId \in BOOLEAN
  /\ shInitialized = FALSE
  /\ shModel = FALSE
  /\ shAgentClient = FALSE
  /\ shCreated = [model |-> 0, agent |-> 0]
  /\ shPc = [c \in Callers |-> "idle"]
  /\ IdleService
  /\ IdleStream
  /\ IdleConc
  /\ IdleLambda
  /\ IdleKb
  /\ IdleAsk
  /\ IdleSid
  /\ IdleCite
  /\ IdleMen
  /\ IdleHttp
  /\ IdleEntry
  /\ IdleLoop
  /\ IdleGen

NextShared ==
  \/ \E c \in Callers, outcome \in SharedInitOutcomes : SharedInitialize(c, outcome)
  \/ \E c \in Callers : SharedHandle(c)
  \/ \E c \in Callers : SharedReturn(c)

SpecShared == InitShared /\ [][NextShared]_vars

\* the AIService of SpecService in a process whose environment also sets, or
\* leaves unset, BEDROCK_KNOWLEDGE_BASE_IDS (read by the constructor)
InitMode ==
  /\ agentId \in AgentIds
  /\ kbIds \in KbLists
  /\ initialized = FALSE
  /\ agentClient = FALSE
  /\ svcPc = "idle"
  /\ svcOp = "query"
  /\ svcQuestion = ""
  /\ svcOpts = [stream |-> FALSE, forceDirectModel |-> FALSE, knowledgeBaseId |-> ""]
  /\ agentCalls = 0
  /\ modelCalls = 0
  /\ agentInput = NoInput
  /\ modelInput = NoInput
  /\ finalResponse = NoText
  /\ agentRead = 0
  /\ svcResult = NoResult
  /\ agentThrew = FALSE
  /\ modelOutcome = NoOutcome
  /\ kbPc = "start"
  /\ kbIndex = 1
  /\ kbQueries = <<>>
  /\ kbResult = NoKbResult
  /\ IdleStream
  /\ IdleConc
  /\ IdleLambda
  /\ IdleAsk
  /\ IdleSid
  /\ IdleCite
  /\ IdleMen
  /\ IdleHttp
  /\ IdleEntry
  /\ IdleShared
  /\ IdleLoop
  /\ IdleGen

SpecMode == InitMode /\ [][NextService]_vars

InitLoop ==
  /\ loopPath \in LoopPaths
  /\ loopInbox \in {<<e>> : e \in MessageEvents}
  /\ loopPosts = <<>>
  /\ IdleService
  /\ IdleStream
  /\ IdleConc
  /\ IdleLambda
  /\ IdleKb
  /\ IdleAsk
  /\ IdleSid
  /\ IdleCite
  /\ IdleMen
  /\ IdleHttp
  /\ IdleEntry
  /\ IdleShared
  /\ IdleGen

NextLoop ==
  \/ \E user \in BOOLEAN : ResponsesHandleMessage(user)
  \/ \E user \in BOOLEAN : EventsHandleMessage(user)

SpecLoop == InitLoop /\ [][NextLoop]_vars

InitGen ==
  /\ genCompletion \in UNION {[1..n -> CompletionEvents] : n \in 0..MaxCompletion}
  /\ genPc = "loop"
  /\ genPos = 0
  /\ genFull = <<>>
  /\ genCites = <<>>
  /\ genOut = <<>>
  /\ IdleService
  /\ IdleStream
  /\ IdleConc
  /\ IdleLambda
  /\ IdleKb
  /\ IdleAsk
  /\ IdleSid
  /\ IdleCite
  /\ IdleMen
  /\ IdleHttp
  /\ IdleEntry
  /\ IdleShared
  /\ IdleLoop

NextGen ==
  \/ GenChunk
  \/ GenCompletionThrows
  \/ GenCitations
  \/ GenComplete

SpecGen == InitGen /\ [][NextGen]_vars

(***************************************************************************)
(* Properties of the streaming responses                                   *)
(***************************************************************************)
Range(f) == {f[i] : i \in DOMAIN f}

Last(seq) == seq[Len(seq)]

IsPrefix(a, b) == Len(a) <= Len(b) /\ SubSeq(b, 1, Len(a)) = a

Occurrences(tok, text) == Cardinality({i \in DOMAIN text : text[i] = tok})

\* the chunks read so far
Consumed == SubSeq(chunks, 1, pos)

\* the concatenation of the bare-string and "text" chunks of seq that come
\* before its first "complete" chunk
RECURSIVE TextBeforeComplete(_)
TextBeforeComplete(seq) ==
  IF seq = <<>> \/ Head(seq).type = "complete" THEN <<>>
  ELSE (IF Head(seq).type \in {"string", "text"} THEN Head(seq).text ELSE <<>>)
         \o TextBeforeComplete(Tail(seq))

\* C5: once a chunk of type "complete" is read no further chunk is read; for
\* [text a, text b, complete, c] the final text is "ab", the fourth chunk is
\* never requested and the content of the complete chunk is not appended.
C5_EarlyStop ==
  /\ \A i \in 1..pos : chunks[i].type = "complete" => i = pos
  /\ (pos > 0 /\ chunks[pos].type = "complete") =>
       /\ hPc # "consume"
       /\ fullResponse = TextBeforeComplete(SubSeq(chunks, 1, pos - 1))
  /\ (chunks = <<TextChunk("a"), TextChunk("b"), CompleteChunk("z"), StringChunk("c")>>
        /\ (hPc = "finalize" \/ (updates # <<>> /\ Last(updates).kind = "final"))) =>
       (pos = 3 /\ fullResponse = <<"a", "b">>)

C5_Witness ==
  /\ chunks = <<TextChunk("a"), TextChunk("b"), CompleteChunk("z"), StringChunk("c")>>
  /\ hPc = "done" /\ pos = 3 /\ fullResponse = <<"a", "b">>
  /\ Last(updates) = Update("final", prefix \o <<"a", "b">>, TRUE)

C6_TextIsConcatenation == fullResponse = TextBeforeComplete(Consumed)

C6_AppendOnlyStep == IsPrefix(fullResponse, fullResponse')

\* C6: fullText is append-only while the stream is consumed, and always equals
\* the in-order concatenation of the bare-string and "text" chunks read before
\* the first "complete" chunk; other chunks add no text.
C6_AppendOnly == [](C6_TextIsConcatenation) /\ [][C6_AppendOnlyStep]_vars

C6_Witness ==
  /\ chunks = <<StringChunk("c"), OtherChunk("y"), CitationsChunk(<<Citation1>>), TextChunk("a")>>
  /\ hPc = "done" /\ pos = 4 /\ fullResponse = <<"c", "a">>

C8_SourcesOnce ==
  /\ \A i \in DOMAIN updates :
       updates[i].kind # "final" => Occurrences(SourcesHeader, updates[i].text) = 0
  /\ Cardinality({i \in DOMAIN updates : updates[i].kind = "final"}) <= 1
  /\ \A i \in DOMAIN updates :
       updates[i].kind = "final" =>
         /\ Occurrences(SourcesHeader, updates[i].text) = IF citations # <<>> THEN 1 ELSE 0
         /\ IsPrefix(prefix \o fullResponse, updates[i].text)
         /\ citations # <<>> =>
              updates[i].text[Len(prefix) + Len(fullResponse) + 1] = SourcesHeader

C8_Witness ==
  /\ hPc = "done" /\ Len(updates) >= 2 /\ Len(chunks) >= 2
  /\ chunks[1].type = "citations" /\ chunks[2].type = "text"
  /\ updates[1].kind = "progress" /\ updates[1].text = prefix \o chunks[2].text \o <<"...">>
  /\ Last(updates).kind = "final" /\ Occurrences(SourcesHeader, Last(updates).text) = 1

\* C9 as stated: a failed progress update does not abort the stream; the
\* remaining chunks are consumed and the terminal update carries the complete
\* accumulated text.
C9_Original ==
  /\ ~(hPc = "catch" /\ streamError = SlackError /\ updates # <<>>
         /\ Last(updates).kind = "progress")
  /\ (hPc = "done" /\ streamError \notin StreamErrors
        /\ \E i \in DOMAIN updates : updates[i].kind = "progress" /\ ~updates[i].ok) =>
       /\ Last(updates).kind = "final"
       /\ IsPrefix(prefix \o TextBeforeComplete(chunks), Last(updates).text)

\* C10 as stated: no exception escapes handleStreamingResponse, and an
\* exception raised while the stream is consumed ends in a terminal error
\* update of the placeholder.
C10_Original ==
  /\ hPc # "rejected"
  /\ (hPc = "done" /\ streamError # "") => Last(updates).kind = "error"

\* C11: when the stream raises after text has been accumulated, no terminal
\* success update is issued; the last update issued for the placeholder is
\* the error message (error glyph, then the error text), and it contains none
\* of the partial text.
C11_PartialTextDiscarded ==
  streamError \in StreamErrors =>
    /\ \A i \in DOMAIN updates : updates[i].kind # "final"
    /\ hPc \in {"done", "rejected"} =>
         /\ updates # <<>>
         /\ Last(updates).kind = "error"
         /\ Head(Last(updates).text) = "[x]"
         /\ Last(Last(updates).text) = streamError
         /\ Range(Last(updates).text) \cap Range(fullResponse) = {}

C11_Witness ==
  /\ hPc = "done" /\ streamError \in StreamErrors /\ Len(updates) = 2
  /\ fullResponse = <<"a", "b">>
  /\ updates[1] = Update("progress", prefix \o <<"a", "b", "...">>, TRUE)
  /\ updates[2].kind = "error" /\ updates[2].ok

\* a step appends a progress update
ProgressPushed ==
  /\ Len(updates') = Len(updates) + 1
  /\ Last(updates').kind = "progress"

\* a step processes a chunk that does not end the loop
ChunkProcessed == pos' = pos + 1 /\ ~IsComplete(chunks[pos + 1])

RECURSIVE LastCitations(_)
LastCitations(seq) ==
  IF seq = <<>> THEN <<>>
  ELSE IF Last(seq).type = "citations" THEN Last(seq).cites
  ELSE LastCitations(SubSeq(seq, 1, Len(seq) - 1))

\* C12: every progress, terminal or error update of a response is addressed to
\* the channel of its own event and the ts Slack returned for its own
\* placeholder, never to the placeholder of another response; the accumulated
\* text and citation list of a response are a function of its own chunks only.
C12_OwnPlaceholder ==
  \A r \in Responses :
    /\ \A i \in DOMAIN resp[r].updates :
         /\ resp[r].messageTs # NoTs
         /\ resp[r].updates[i].target.channel = resp[r].channel
         /\ resp[r].updates[i].target.ts = resp[r].messageTs
         /\ \A s \in Responses \ {r} : resp[r].updates[i].target.ts # resp[s].messageTs
    /\ resp[r].fullResponse = TextBeforeComplete(SubSeq(resp[r].chunks, 1, resp[r].pos))
    /\ resp[r].pc \in {"consume", "finalize"} =>
         resp[r].citations = LastCitations(SubSeq(resp[r].chunks, 1, resp[r].pos))

\* two responses in the same channel, both streaming, each has edited its own
\* placeholder while the other was still in flight
C12_Witness ==
  /\ resp[1].channel = resp[2].channel
  /\ resp[1].chunks # resp[2].chunks
  /\ resp[1].pc = "consume" /\ resp[2].pc = "consume"
  /\ resp[1].updates # <<>> /\ resp[2].updates # <<>>
  /\ resp[1].fullResponse # <<>> /\ resp[2].fullResponse # <<>>
  /\ resp[1].fullResponse # resp[2].fullResponse

\* C14 as stated: every messaging-surface call made with the remaining time at
\* or below the buffer is skipped without raising, and the stream being
\* consumed is not aborted by it.
C14_Original ==
  /\ \A i \in DOMAIN lamCalls :
       isApproachingTimeout(lamCalls[i].remaining) => lamCalls[i].outcome = "skipped"
  /\ lamPc \notin {"catch", "rejected"}

SpecService == InitService /\ [][NextService]_vars

\* the current call has invoked, or is about to invoke, the agent transport
AgentAttempted == svcPc \in {"agentSend", "agentIter"} \/ agentCalls > 0

\* the current call has invoked, or is about to invoke, the model transport
ModelAttempted == svcPc = "model" \/ modelCalls > 0

\* C1: when the agent transport raises during query() (at send or while the
\* completion is iterated), the direct model is invoked with the same
\* question, and if it returns text T the result is success, T, "model".
C1_QueryFallback ==
  (svcOp = "query" /\ agentThrew) =>
    /\ svcPc \in {"model", "returned"}
    /\ modelInput.question = svcQuestion
    /\ svcPc = "returned" => modelCalls = 1
    /\ (svcPc = "returned" /\ modelOutcome.kind = "text") =>
         /\ svcResult.success
         /\ svcResult.response = modelOutcome.text
         /\ svcResult.source = "model"

C1_Witness ==
  /\ svcOp = "query" /\ svcPc = "returned" /\ agentThrew /\ agentRead > 0
  /\ modelOutcome = [kind |-> "text", text |-> <<"ok">>]
  /\ svcResult.response = <<"ok">> /\ svcResult.source = "model"

\* C2: one call invokes the agent transport at most once and the model
\* transport at most once; a model failure is not retried and is returned as
\* the final failure result.
C2_AtMostOnce ==
  /\ agentCalls <= 1
  /\ modelCalls <= 1
  /\ modelOutcome.kind = "threw" =>
       /\ svcPc = "returned"
       /\ modelCalls = 1
       /\ ~svcResult.success

C2_Witness ==
  /\ svcOp = "query" /\ svcPc = "returned" /\ agentCalls = 1 /\ modelCalls = 1
  /\ modelOutcome.kind = "threw" /\ ~svcResult.success

\* C3 as stated: for query() and stream() alike the agent is attempted first
\* iff an agent is configured and forceDirectModel is not set; otherwise the
\* model is invoked and the agent transport never is.
C3_Original ==
  svcPc # "idle" =>
    /\ AgentAttempted <=> (agentId # "" /\ ~svcOpts.forceDirectModel)
    /\ ~(agentId # "" /\ ~svcOpts.forceDirectModel) => (agentCalls = 0 /\ ModelAttempted)

\* C3 amended: stream() attempts the agent first iff an agent is configured
\* and forceDirectModel is not set; query() attempts the agent first iff an
\* agent is configured and options.stream is not set (it does not read
\* forceDirectModel); otherwise the model is invoked and the agent transport
\* never is.
C3_BackendSelection ==
  svcPc # "idle" =>
    LET agentFirst == IF svcOp = "stream"
                        THEN agentId # "" /\ ~svcOpts.forceDirectModel
                        ELSE agentId # "" /\ ~svcOpts.stream
    IN /\ AgentAttempted <=> agentFirst
       /\ ~agentFirst => (agentCalls = 0 /\ ModelAttempted)

C3_Witness ==
  /\ svcOp = "query" /\ svcPc = "returned" /\ agentId # ""
  /\ svcOpts.forceDirectModel /\ ~svcOpts.stream
  /\ agentCalls = 1 /\ svcResult.source = "agent"

\* C4: query() and stream() never reject, whatever the transports do; when
\* the finally selected backend (the model) fails, the result has
\* success = false and a non-empty response message.
C4_NeverThrows ==
  /\ svcPc # "rejected"
  /\ svcPc = "returned" => (svcResult.success <=> modelOutcome.kind # "threw")
  /\ (svcPc = "returned" /\ ~svcResult.success) => svcResult.response # <<>>

C4_Witness ==
  /\ svcOp = "stream" /\ svcPc = "returned" /\ agentThrew
  /\ modelOutcome.kind = "threw" /\ svcResult.response = StreamModelErrorText

\* C15 as stated: for a stream() call, every exception of the agent transport,
\* raised by the invocation or while the completion is iterated, leads to the
\* direct model being invoked for the same question.
C15_Original ==
  (svcOp = "stream" /\ agentThrew) =>
    /\ ModelAttempted
    /\ modelInput.question = svcQuestion
    /\ svcPc # "iterFailed"

\* C16 as stated: when the agent fails and the direct model is invoked
\* instead, the model is invoked with the original question and the original
\* knowledgeBaseId.
C16_Original ==
  (agentThrew /\ ModelAttempted) =>
    /\ modelInput.question = svcQuestion
    /\ modelInput.kb = svcOpts.knowledgeBaseId

\* C17 as stated: a failure of initialize() does not make query()/stream()
\* reject; the call still returns a result value, with the affected backend
\* treated as not configured.
C17_Original ==
  /\ svcPc # "initRejected"
  /\ (svcPc = "returned" /\ ~agentClient) => svcResult.source # "agent"

\* C18: the knowledge bases are queried strictly in configured order, one at
\* a time; a query is issued only after every earlier one returned
\* success = false, so the first success ends the search; the unscoped query
\* is issued only after all configured knowledge bases failed or when none is
\* configured; the value returned is the result of the last query issued.
C18_OrderedFirstSuccess ==
  /\ Len(kbQueries) <= Len(kbIds) + 1
  /\ \A i \in DOMAIN kbQueries :
       /\ kbQueries[i].kb = (IF i <= Len(kbIds) THEN kbIds[i] ELSE Unscoped)
       /\ i < Len(kbQueries) => ~kbQueries[i].result.success
  /\ kbPc = "done" =>
       /\ kbQueries # <<>>
       /\ Last(kbQueries).result.success \/ Len(kbQueries) = Len(kbIds) + 1
       /\ kbResult.success = Last(kbQueries).result.success
       /\ kbResult.response = Last(kbQueries).result.response
       /\ kbResult.knowledgeBaseUsed = Last(kbQueries).kb

\* three knowledge bases of which the first fails and the second succeeds:
\* the search is over after two queries
C18_Witness ==
  /\ Len(kbIds) = 3
  /\ kbPc = "done"
  /\ Len(kbQueries) = 2
  /\ ~kbQueries[1].result.success
  /\ kbQueries[2].result.success
  /\ kbResult.knowledgeBaseUsed = kbIds[2]

\* C19 as stated: a knowledge base wins only with a non-empty, non-error
\* backend response; empty or whitespace-only agent text is not a success.
C19_Original ==
  (kbPc = "done" /\ kbResult.knowledgeBaseUsed # Unscoped) =>
    /\ Last(kbQueries).outcome.kind # "failed"
    /\ Trim(Last(kbQueries).outcome.text) # <<>>

\* the message is "ask:" followed by nothing or by blanks only
EmptyAsk == MatchesAskAny(askText) /\ Trim(Tail(askText)) = <<>>

\* C20 as stated: on every ask path a message "ask:" with an empty or
\* whitespace-only question is answered with the canned empty-question
\* response, no backend is called and no placeholder is posted.
C20_Original ==
  (EmptyAsk /\ askPc # "start") =>
    /\ \E i \in DOMAIN askSent : askSent[i].kind = "askEmptyResponse"
    /\ \A i \in DOMAIN askSent : askSent[i].kind # "placeholder"
    /\ askBackend = 0

\* the smaller of two numbers
Min(a, b) == IF a <= b THEN a ELSE b

\* C21: the session id is the text slack-<userId>-<channelId>-<now> cut to its
\* first 100 characters: it is never longer than 100 characters, whatever the
\* lengths of the ids, and is the whole text when that is short enough.
C21_SessionIdBounded ==
  sidOp # "none" =>
    /\ TextLen(sessionId) <= MaxSessionIdLength
    /\ TextLen(sessionId) =
         Min(MaxSessionIdLength, TextLen(SessionTemplate(sidUser, sidChannel, sidNow)))
    /\ \A i \in DOMAIN sessionId :
         sessionId[i].tag = SessionTemplate(sidUser, sidChannel, sidNow)[i].tag

\* a user id longer than 100 characters: the id is cut inside the user id
C21_Witness ==
  /\ sidOp = "stream"
  /\ sidUser > MaxSessionIdLength
  /\ TextLen(sessionId) = MaxSessionIdLength
  /\ Len(sessionId) = 2

\* C22: a reference is inserted only if no entry has its uri or its title, so
\* the uris of the citation list are pairwise distinct and so are the titles;
\* feeding a reference that was already fed leaves the list as it is.
C22_Dedup ==
  /\ \A i, j \in DOMAIN citeList :
       i # j => (citeList[i].uri # citeList[j].uri /\ citeList[i].title # citeList[j].title)
  /\ \A k \in DOMAIN citeDone : extractReference(citeList, citeDone[k]) = citeList
  /\ Len(citeList) <= Len(citeDone)

\* the same reference fed twice, then one that shares neither uri nor title
C22_Witness ==
  /\ Len(citeDone) = 3
  /\ citeDone[1] = citeDone[2]
  /\ Len(citeList) = 2
  /\ citeList[1].uri = resolveUri(citeDone[1])
  /\ citeList[2].uri = resolveUri(citeDone[3])

\* the first variant, in the fixed order, that carries a uri (0 if none does)
FirstWithUri(ref) ==
  IF \E i \in DOMAIN Variants : ref.loc[Variants[i]] = "uri"
    THEN CHOOSE i \in DOMAIN Variants :
           /\ ref.loc[Variants[i]] = "uri"
           /\ \A j \in 1..(i - 1) : ref.loc[Variants[j]] # "uri"
    ELSE 0

\* C23: the uri of a citation is the one of the first variant, in the order
\* s3, web, confluence, salesforce, sharepoint, kendra, that has a non-empty
\* uri; a reference none of whose variants has one produces no citation.
C23_UriOrder ==
  /\ Variants = <<"s3", "web", "confluence", "salesforce", "sharepoint", "kendra">>
  /\ citeDone # <<>> =>
       LET ref == citeDone[1]
           k == FirstWithUri(ref)
       IN IF k = 0 THEN citeList = <<>>
          ELSE /\ Len(citeList) = 1
               /\ citeList[1].uri = UriOf(Variants[k], ref.u)

\* s3 is there without a uri, web and kendra carry one: the web uri is taken
C23_Witness ==
  /\ citeDone # <<>>
  /\ citeDone[1].loc["s3"] = "nouri"
  /\ citeDone[1].loc["web"] = "uri"
  /\ citeDone[1].loc["kendra"] = "uri"
  /\ citeList # <<>>
  /\ citeList[1].uri = UriOf("web", citeDone[1].u)

\* C24 as stated: the title is the metadata title if present, else the first
\* 50 characters of the content text followed by "...", else "Source document".
C24_Original ==
  (citeDone # <<>> /\ citeList # <<>>) =>
    LET ref == citeDone[1]
    IN citeList[1].title =
         (IF ref.title # <<>> THEN ref.title
          ELSE IF ref.content.present
            THEN substring(ref.content.text, TitleChars) \o <<Seg("...", 3)>>
          ELSE <<Seg("Source document", 15)>>)

\* C25 as stated: the type of a citation is the variant its uri was taken from.
C25_Original ==
  (citeDone # <<>> /\ citeList # <<>>) =>
    citeList[1].type = Variants[FirstWithUri(citeDone[1])]

\* the types a citation may carry: the six variants, "unknown" and anything else
CitationTypes == VariantNames \cup {"unknown", "other"}

\* cs with the type of its first citation replaced
Retyped(cs, ty) == [i \in DOMAIN cs |-> IF i = 1 THEN [cs[i] EXCEPT !.type = ty] ELSE cs[i]]

\* the glyph table of the Sources section
GlyphTable ==
  [ty \in CitationTypes |->
     CASE ty = "s3" -> "page" [] ty = "web" -> "globe" [] ty = "confluence" -> "memo"
       [] ty = "salesforce" -> "zap" [] ty = "sharepoint" -> "chart"
       [] ty = "kendra" -> "magnifier" [] OTHER -> "clipboard"]

\* C26: the Sources section is the header followed, for the citations in
\* insertion order, by the number (from 1), the glyph of the type (the unknown
\* glyph for any other type), the title and the uri; the formatter inside
\* _queryAgent and formatCitations build the same section from the same list.
C26_SameSources ==
  citeList # <<>> =>
    \A ty \in CitationTypes :
      LET cs == Retyped(citeList, ty)
          section == formatCitations(cs)
      IN /\ querySources(cs) = section
         /\ Len(section) = 1 + 4 * Len(cs)
         /\ section[1] = SourcesHeader
         /\ \A i \in DOMAIN cs :
              /\ section[4 * i - 2] = ToString(i)
              /\ section[4 * i - 1] = GlyphTable[cs[i].type]
              /\ section[4 * i] = cs[i].title
              /\ section[4 * i + 1] = cs[i].uri

\* two citations of different types
C26_Witness ==
  /\ Len(citeList) = 2
  /\ citePending = <<>>
  /\ citeList[1].type = "web"
  /\ citeList[2].type = "kendra"
  /\ querySources(citeList)[6] = "2"

\* the category the fixed order gives a cleaned text
ExpectedCategory(t) ==
  IF MentionLen(t) < 2 THEN "empty"
  ELSE IF Head(t) = "hi" THEN "greeting"
  ELSE IF Head(t) = "help" THEN "help"
  ELSE IF Head(t) = "thanks" THEN "thanks"
  ELSE IF Head(t) = "status" THEN "status"
  ELSE IF Head(t) = "info" THEN "info"
  ELSE "ai"

\* C27: a mention is routed by the first of empty, greeting, help, thanks,
\* status, info that matches its text with the mention tokens stripped and
\* the ends trimmed; a category reply never starts an AI query; a text that
\* matches none goes, as cleaned, to the streaming AI query; when nothing
\* fails exactly one reply action is taken.
C27_MentionRouting ==
  menPc # "start" =>
    LET t == Trim(SelectSeq(menText, IsNotMention))
    IN /\ ExpectedCategory(t) # "ai" =>
            /\ menAi = <<>>
            /\ menReplies[1].kind = ExpectedCategory(t)
       /\ ExpectedCategory(t) = "ai" =>
            /\ menAi = <<t>>
            /\ \A i \in DOMAIN menReplies : menReplies[i].kind = "error"
       /\ (menPc = "done" /\ \A i \in DOMAIN menReplies : menReplies[i].kind # "error") =>
            Len(menReplies) + Len(menAi) = 1

\* a mention followed by a question: the question alone reaches the AI query
C27_Witness ==
  /\ menText = <<MentionToken, " ", "what">>
  /\ menPc = "done"
  /\ menAi = << <<"what">> >>
  /\ menReplies = <<>>

\* C28 as stated: when a reply or handleStreamingResponse throws, the handler
\* sends the generic error message and resolves without rejecting.
C28_Original ==
  /\ menPc # "rejected"
  /\ (menPc = "done" /\ (\E i \in DOMAIN menReplies : ~menReplies[i].ok)) =>
       Last(menReplies).kind = "error"

\* the request is a POST with a body that parses and is not a Slack retry
PlainPost == httpReq.method = "POST" /\ httpReq.bodyOk /\ ~httpReq.retry

\* a signature or timestamp header is missing or the signature does not verify
BadSignature ==
  \/ httpReq.sig \in {"missing", "wrong", "wrongLength"}
  \/ httpReq.ts \in {"missing", "stale"}

\* C29 as stated: a POST whose signature or timestamp header is missing or
\* whose signature does not verify, also one of another length than the
\* expected signature, is answered 401 and no event handler is invoked.
C29_Original ==
  (PlainPost /\ BadSignature /\ httpPc = "done") =>
    /\ httpStatus = 401
    /\ httpHandlers = 0

\* C30 as stated: a request that passed the method, body and signature checks
\* is always answered 200, whatever fails in the initialisation of the Slack
\* app or in the processing of the event.
C30_Original ==
  (PlainPost /\ ~BadSignature /\ httpPc = "done") => httpStatus = 200

\* C31 as stated: on every HTTP entry point nothing is done with a request
\* body, the echo of a url_verification challenge included, unless the
\* signature of the request has been verified.
C31_Original == entActed # "none" => entVerified

\* C32: once initialize() has succeeded, no step of any caller, later or
\* concurrently running, creates the model or the agent client again or
\* changes the fields holding them.
C32_InitializedOnce ==
  [][shInitialized =>
       /\ shCreated' = shCreated
       /\ shModel' = shModel
       /\ shAgentClient' = shAgentClient
       /\ shInitialized']_vars

\* three callers are past initialize at once and the clients were made once
C32_Witness ==
  /\ shInitialized
  /\ shCreated.model = 1
  /\ \A c \in Callers : shPc[c] \in {"awaitInit", "agent", "model"}
  /\ \E c \in Callers : shPc[c] = "awaitInit"
  /\ \E c \in Callers : shPc[c] \in {"agent", "model"}

\* a call with default options whose knowledge base, if any, is a configured one
ModeCall ==
  /\ svcPc # "idle"
  /\ ~svcOpts.stream
  /\ ~svcOpts.forceDirectModel
  /\ kbIds = <<>> => svcOpts.knowledgeBaseId = ""

\* C33 as stated: the bot answers through the knowledge-base (retrieval)
\* backend exactly when BEDROCK_KNOWLEDGE_BASE_IDS is set, and through the
\* direct model when no knowledge bases are configured.
C33_Original ==
  ModeCall =>
    /\ AgentAttempted <=> kbIds # <<>>
    /\ kbIds = <<>> => (agentCalls = 0 /\ ModelAttempted)

AllUpdatesOk == \A i \in 1..Len(updates) : updates[i].ok

\* the positions of the terminal updates among the updates of the placeholder
TerminalUpdates ==
  {i \in 1..Len(updates) : updates[i].kind \in {"final", "failure", "error"}}

\* C35 as stated: when the messaging surface does not fail, a call of
\* handleStreamingResponse issues exactly one terminal update of its
\* placeholder, all progress updates precede it and no update follows it.
C35_Original ==
  AllUpdatesOk =>
    /\ Cardinality(TerminalUpdates) <= 1
    /\ TerminalUpdates # {} => Len(updates) \in TerminalUpdates
    /\ hPc \in {"done", "rejectedByStream"} => Cardinality(TerminalUpdates) = 1

\* C36: aiService.stream is called only after the placeholder was posted, and
\* when posting the placeholder failed no backend is invoked for the request.
C36_PlaceholderFirst ==
  /\ askPc = "stream" \/ askBackend > 0 =>
       \E i \in 1..Len(askSent) : askSent[i] = AskMessage("placeholder", TRUE)
  /\ (\E i \in 1..Len(askSent) : askSent[i] = AskMessage("placeholder", FALSE)) =>
       askPc # "stream" /\ askBackend = 0

\* a request whose placeholder could not be posted has ended
C36_Witness ==
  /\ askPc = "done"
  /\ askBackend = 0
  /\ \E i \in 1..Len(askSent) : askSent[i] = AskMessage("placeholder", FALSE)

\* C37 as stated: on every HTTP event-handling path a message event that
\* carries a bot_id never causes the bot to post a message.
C37_Original == \A i \in 1..Len(loopPosts) : ~loopPosts[i].toBot

\* the references of the consumed completion events that carry a uri
CitedRefs ==
  {ref \in GenRefs :
     /\ resolveUri(ref) # NoUri
     /\ \E i \in 1..genPos : \E j \in 1..Len(genCompletion[i].refs) :
          genCompletion[i].refs[j] = ref}

\* cs holds no two entries with the same uri or the same title, and an entry
\* for every cited reference
CompleteDeduplicated(cs) ==
  /\ \A i, j \in 1..Len(cs) :
       i # j => cs[i].uri # cs[j].uri /\ cs[i].title # cs[j].title
  /\ \A ref \in CitedRefs :
       \E i \in 1..Len(cs) :
         cs[i].uri = resolveUri(ref) \/ cs[i].title = resolveTitle(ref)

\* the texts of the text chunks yielded so far, joined
RECURSIVE JoinedText(_)
JoinedText(out) ==
  IF out = <<>> THEN <<>>
  ELSE (IF Head(out).type = "text" THEN Head(out).content ELSE <<>>) \o JoinedText(Tail(out))

\* C38: the generator yields text chunks, then at most one citations chunk
\* (only when a citation was extracted, carrying the complete deduplicated
\* list), then exactly one complete chunk as the last element; nothing but
\* the complete chunk follows the citations chunk.
C38_StreamProtocol ==
  /\ \A i \in 1..Len(genOut) : genOut[i].type \in {"text", "citations", "complete"}
  /\ \A i, j \in 1..Len(genOut) :
       (i < j /\ genOut[i].type = "citations") => genOut[j].type = "complete"
  /\ \A i \in 1..Len(genOut) : genOut[i].type = "complete" => i = Len(genOut)
  /\ \A i \in 1..Len(genOut) :
       genOut[i].type = "citations" =>
         /\ genOut[i].content # <<>>
         /\ genPos = Len(genCompletion)
         /\ CompleteDeduplicated(genOut[i].content)
  /\ genPc = "returned" =>
       /\ genOut # <<>>
       /\ genOut[Len(genOut)] = Yielded("complete", JoinedText(genOut))
       /\ (\E i \in 1..Len(genOut) : genOut[i].type = "citations") <=> CitedRefs # {}

\* a text chunk, the citations of two references with one uri, the end
C38_Witness ==
  /\ genPc = "returned"
  /\ Len(genOut) = 3
  /\ genOut[1].type = "text"
  /\ genOut[2].type = "citations" /\ Len(genOut[2].content) = 1
  /\ Cardinality(CitedRefs) = 2

\* C39: when the agent fails for the first knowledge base and the model
\* answers, the search returns there: one query, the result attributed to
\* that knowledge base (kbIndex is the number in its source), no later
\* knowledge base queried; the unscoped query is reached only after the model
\* failed for every knowledge base.
C39_ModelFallbackWins ==
  /\ (kbIds # <<>> /\ kbQueries # <<>> /\ kbQueries[1].outcome.kind = "model") =>
       /\ Len(kbQueries) = 1
       /\ kbPc = "done"
       /\ kbIndex = 1
       /\ kbResult.success
       /\ kbResult.response = kbQueries[1].outcome.text
       /\ kbResult.source = "knowledge base"
       /\ kbResult.knowledgeBaseUsed = kbIds[1]
  /\ \A i \in DOMAIN kbQueries :
       (kbIds # <<>> /\ kbQueries[i].kb = Unscoped) =>
         /\ i = Len(kbIds) + 1
         /\ \A j \in 1..(i - 1) : kbQueries[j].outcome.kind = "failed"

\* three knowledge bases; the model answered for the first one
C39_Witness ==
  /\ Len(kbIds) = 3
  /\ kbPc = "done"
  /\ Len(kbQueries) = 1
  /\ kbQueries[1].outcome.kind = "model"
  /\ kbResult.knowledgeBaseUsed = kbIds[1]

\* C40: the background task never rejects, whether the backend call, the
\* consumption of the stream or an update of the message fails; when the
\* placeholder cannot be posted the handler returns without starting it.
C40_BackgroundNeverRejects ==
  path = "background" =>
    /\ hPc \notin {"rejected", "rejectedByStream"}
    /\ hPc = "unsent" => updates = <<>>

\* the backend call or the stream failed before any chunk and the error
\* update failed as well; the task ended
C40_Witness ==
  /\ path = "background"
  /\ hPc = "done"
  /\ streamError # ""
  /\ pos = 0
  /\ Len(updates) = 1
  /\ updates[1].kind = "error" /\ ~updates[1].ok

====
